---- MODULE Spec2Model ----
(***************************************************************************)
(* A model of the dispatch simulation engine of load-flex: the set-point   *)
(* optimisers, the battery state machine, the set-point controller, the    *)
(* dispatch constraint schedule and the time-stepped dispatch loop.        *)
(*                                                                         *)
(* Numbers.  The program computes with Python floats; the model computes   *)
(* with exact integers.  Energies are counted in a fine unit, 1/Scale of   *)
(* a whole energy unit, chosen so that every product with the round trip   *)
(* efficiency met in a bounded run is again a whole number of fine units.  *)
(* IEEE rounding is not modelled.                                          *)
(*                                                                         *)
(* Time.  A timestamp is a whole number of hours counted from a Monday,    *)
(* 00:00; the sample rate is a whole number of hours.                      *)
(***************************************************************************)
EXTENDS Integers, Sequences, FiniteSets

\* Python's None; where a number is optional, the number v is carried as <<v>>
None == <<>>

\* Python's truth value of a number
Truthy(v) == v # 0

\* Python's truth value of an optional number: None and 0 are false
TruthyOpt(o) == o # None /\ o[1] # 0

\* ---------------------------------------------------------------- bounds
\* longest forecast window handed to an optimiser
MaxWindow == 5
\* largest search budget tried by the optimiser harnesses
MaxArea == 21

\* longest run of dispatch requests, and longest demand series of a run,
\* that the harnesses draw
MaxSteps == 3
\* the longest window handed to the time-of-use calculator
MaxTouWindow == 3
\* the most rules of one kind a schedule of the schedule harness has
MaxRules == 2
\* the most constraints a pipeline of the constraint harness has
MaxConstraints == 2
\* the most rows of a window of the sub-load harness
MaxSubLoadRows == 3
\* the most slots of a price forecast of the tranche harness
MaxPriceSlots == 3

\* demand values an optimiser window is drawn from
WindowValues == {2, 4, 6, 8, 10}

\* fine units in one whole energy unit: after MaxSteps charges at an
\* efficiency of 1/2 an energy is still a whole number of fine units
Scale == 2 ^ MaxSteps

VARIABLES
    \* optimiser harness: one call of a set-point optimiser
    opt_fn,          \* which optimiser was called ("none" before the call)
    opt_demand_arr,  \* the forecast window handed to it
    opt_area,        \* the search budget handed to it
    opt_index,       \* the index peak_area_idx returned
    opt_result       \* the threshold returned

optVars == <<opt_fn, opt_demand_arr, opt_area, opt_index, opt_result>>

VARIABLES
    \* the storage equipment (a Battery)
    equipment,
    \* battery harness: the last dispatch_request made of the equipment
    bat_requests,    \* number of requests made so far
    bat_proposal,    \* the proposal of the last request
    bat_sample_rate, \* its sample rate, in hours
    bat_before,      \* the equipment as it was before the last request
    bat_dispatch     \* the dispatch the last request returned

batVars == <<bat_requests, bat_proposal, bat_sample_rate, bat_before, bat_dispatch>>

VARIABLES
    \* the controller's SetPoints: charge_setpoint, discharge_setpoint,
    \* universal_setpoint
    setpoints,
    \* the DispatchConstraintSchedule of the dispatcher
    dispatch_constraint_schedule,
    \* controller harness: the last call made of the controller
    ctl_op,          \* "none", "set_setpoints", "dispatch_proposal", "validate_dispatch"
    ctl_before,      \* the set-points before the call
    ctl_args,        \* its arguments
    ctl_result       \* what it returned, or the error it raised

ctlVars == <<ctl_op, ctl_before, ctl_args, ctl_result>>

VARIABLES
    \* the dispatcher and what it is configured with
    dispatcher,          \* the dispatcher class
    meter,               \* tseries (the dispatch_on column), sample_rate, first_datetime
    setter_schedule,     \* setpoints.setter_schedule, a ParamSetterSchedule
    forecasters,         \* setpoints.forecasters: the windows, in hours
    controller,          \* primary_dispatch_schedule, secondary_dispatch_schedule
    special_constraints, \* the constraint pipeline
    \* the run of StorageDispatcher.dispatch
    pc,                  \* where the run stands
    row,                 \* the row of the series the loop is at (from 1)
    row_proposal_v,      \* dispatch_proposal of the current row
    row_dispatch,        \* the dispatch the equipment returned for the row
    updater_arrays,      \* the meter's rows appended so far
    dispatch_tseries,    \* the consolidated record (None before)
    historical_peak_demand,
    historical_min_demand,
    error                \* the exception that ended the run (None if none)

cfgVars == <<dispatcher, meter, forecasters, controller, special_constraints>>
runVars == <<pc, row, row_proposal_v, row_dispatch, updater_arrays, dispatch_tseries,
             historical_peak_demand, historical_min_demand, error>>
loopVars == <<cfgVars, setter_schedule, runVars>>

vars == <<optVars, equipment, batVars, setpoints, dispatch_constraint_schedule,
          ctlVars, loopVars>>

\* ------------------------------------------------------- small helpers
Min2(a, b) == IF a <= b THEN a ELSE b
Max2(a, b) == IF a >= b THEN a ELSE b
Min3(a, b, c) == Min2(a, Min2(b, c))

RECURSIVE SumSeq(_)
SumSeq(s) == IF s = <<>> THEN 0 ELSE Head(s) + SumSeq(Tail(s))

SeqMax(s) == CHOOSE x \in {s[i] : i \in DOMAIN s} : \A i \in DOMAIN s : s[i] <= x
SeqMin(s) == CHOOSE x \in {s[i] : i \in DOMAIN s} : \A i \in DOMAIN s : x <= s[i]

\* np.sort: ascending, by insertion
RECURSIVE Insert(_, _)
Insert(x, s) ==
    IF s = <<>> THEN <<x>>
    ELSE IF x <= Head(s) THEN <<x>> \o s
    ELSE <<Head(s)>> \o Insert(x, Tail(s))

RECURSIVE NpSort(_)
NpSort(s) == IF s = <<>> THEN <<>> ELSE Insert(Head(s), NpSort(Tail(s)))

\* np.flip
NpFlip(s) == [i \in 1..Len(s) |-> s[Len(s) + 1 - i]]

\* np.cumsum
NpCumsum(s) == [i \in 1..Len(s) |-> SumSeq(SubSeq(s, 1, i))]

\* np.searchsorted(a, v), side='left', on an ascending array: the number of
\* elements strictly below v (a 0-based insertion index)
NpSearchSorted(a, v) == Cardinality({i \in DOMAIN a : a[i] < v})

\* Python's arr[index] for a 0-based index that may be negative
PyIndex(arr, index) ==
    IF index >= 0 /\ index < Len(arr) THEN arr[index + 1]
    ELSE IF index < 0 /\ index >= -Len(arr) THEN arr[Len(arr) + index + 1]
    ELSE "IndexError"

\* ------------------------------------------------------------ optimisers
\* PeakShave.cumulative_peak_areas
cumulative_peak_areas(sorted_arr) ==
    LET n == Len(sorted_arr)
        delta_energy == [i \in 1..n |->
            IF i < n THEN sorted_arr[i + 1] - sorted_arr[i] ELSE 0]
        reverse_index == [i \in 1..n |-> n - i]
        delta_area == [i \in 1..n |-> delta_energy[i] * reverse_index[i]]
    IN  NpCumsum(NpFlip(delta_area))

\* the mutant: the binary search without the step back by one
peak_area_idx_no_step_back(peak_areas, area, max_idx) ==
    NpSearchSorted(peak_areas, area)

\* PeakShave.peak_area_idx
peak_area_idx(peak_areas, area, max_idx) ==
    LET idx == NpSearchSorted(peak_areas, area) - 1
    IN  IF TruthyOpt(max_idx) THEN Min2(idx, max_idx[1]) ELSE idx

\* the positions, counted from 0, that sorted_df.iloc[:max_idx:-1] yields:
\* from the last row down to the row after max_idx
scanned_positions(sorted_df, max_idx) ==
    LET n == Len(sorted_df)
        stop == IF max_idx >= 0 THEN max_idx ELSE Max2(max_idx + n, 0 - 1)
    IN  {p \in 0..(n - 1) : p > stop}

\* the exposed sub-load area of the cut at the row at position p: the sum
\* over all rows of the sub-load clipped to [0, max(0, gross - gross at p)]
exposed_sub_area(sorted_df, p) ==
    LET exposed_gross == [j \in DOMAIN sorted_df |->
            IF sorted_df[j].gross - sorted_df[p + 1].gross < 0 THEN 0
            ELSE sorted_df[j].gross - sorted_df[p + 1].gross]
        exposed_sub == [j \in DOMAIN sorted_df |->
            Min2(Max2(sorted_df[j].sub, 0), exposed_gross[j])]
    IN  SumSeq(exposed_sub)

\* PeakShave.sub_load_peak_shave_limit: the value returned, or the error
\* raised by .iloc[i + 1], i being the label of the row
sub_load_peak_shave_limit(sorted_df, max_idx, area) ==
    LET scanned == scanned_positions(sorted_df, max_idx)
        reached == {p \in scanned : exposed_sub_area(sorted_df, p) >= area}
        first == CHOOSE p \in reached : \A q \in reached : q <= p
        i == sorted_df[first + 1].label
    IN  IF reached = {} THEN [value |-> 0, raised |-> "none"]
        ELSE IF i + 1 >= Len(sorted_df) THEN [value |-> 0, raised |-> "IndexError"]
        ELSE [value |-> sorted_df[i + 2].gross, raised |-> "none"]

\* PeakShave.peak_shave
peak_shave(demand_arr, area) ==
    LET sorted_arr == NpSort(demand_arr)
        peak_areas == cumulative_peak_areas(sorted_arr)
        index == peak_area_idx(peak_areas, area, None)
    IN  [index |-> index, threshold |-> PyIndex(NpFlip(sorted_arr), index)]

\* the area of the window above a level t: the energy to dispatch to cap
\* the window at t
AreaAbove(demand_arr, t) ==
    SumSeq([i \in 1..Len(demand_arr) |-> Max2(0, demand_arr[i] - t)])

\* a quotient of two whole numbers, kept as a fraction with a positive
\* denominator: Python's true division loses nothing here
Fraction(num, den) == [num |-> num, den |-> den]
FracEq(p, q) == p.num * q.den = q.num * p.den
FracAdd(p, q) == Fraction(p.num * q.den + q.num * p.den, p.den * q.den)
FracSub(p, q) == Fraction(p.num * q.den - q.num * p.den, p.den * q.den)
FracLeq(p, q) == p.num * q.den <= q.num * p.den
FracMin(p, q) == IF FracLeq(p, q) THEN p ELSE q
FracMax(p, q) == IF FracLeq(p, q) THEN q ELSE p

\* TOUShiftingCalculator.inverted_arr
inverted_arr(arr) == [i \in 1..Len(arr) |-> SeqMax(arr) - arr[i]]

\* TOUShiftingCalculator.cap_area
cap_area(arr) ==
    LET cap_arr == [i \in 1..Len(arr) |-> arr[i] - SeqMin(arr)]
    IN  SumSeq(cap_arr)

\* TOUShiftingCalculator.cap_height
cap_height(arr) ==
    LET cap_arr == [i \in 1..Len(arr) |-> arr[i] - SeqMin(arr)]
    IN  SeqMax(cap_arr)

\* the mutant: the surplus is not spread over the window
additional_depth_undivided(arr, area_required) == Fraction(area_required, 1)

\* TOUShiftingCalculator.additional_depth
additional_depth(arr, area_required) ==
    LET width == Len(arr)
    IN  Fraction(area_required, width)

\* the mutant: a budget equal to the cap area is spread, not searched
calculate_setpoint_spread_at_cap(demand_arr, area) ==
    IF Truthy(area)
    THEN LET additional_area_required == area - cap_area(demand_arr)
         IN  IF additional_area_required >= 0
             THEN FracSub(Fraction(SeqMax(demand_arr), 1),
                          FracAdd(additional_depth(demand_arr, additional_area_required),
                                  Fraction(cap_height(demand_arr), 1)))
             ELSE Fraction(peak_shave(demand_arr, area).threshold, 1)
    ELSE Fraction(SeqMax(demand_arr), 1)

\* the mutant: a budget of zero is searched like any other
calculate_setpoint_zero_searched(demand_arr, area) ==
    LET additional_area_required == area - cap_area(demand_arr)
    IN  IF additional_area_required > 0
        THEN FracSub(Fraction(SeqMax(demand_arr), 1),
                     FracAdd(additional_depth(demand_arr, additional_area_required),
                             Fraction(cap_height(demand_arr), 1)))
        ELSE Fraction(peak_shave(demand_arr, area).threshold, 1)

\* TOUShiftingCalculator.calculate_setpoint: the setpoint, as a fraction
calculate_setpoint(demand_arr, area) ==
    IF Truthy(area)
    THEN LET additional_area_required == area - cap_area(demand_arr)
         IN  IF additional_area_required > 0
             THEN LET additional_depth_required ==
                          additional_depth(demand_arr, additional_area_required)
                      total_depth ==
                          FracAdd(additional_depth_required,
                                  Fraction(cap_height(demand_arr), 1))
                  IN  FracSub(Fraction(SeqMax(demand_arr), 1), total_depth)
             ELSE Fraction(peak_shave(demand_arr, area).threshold, 1)
    ELSE Fraction(SeqMax(demand_arr), 1)

\* the mutant: the set-point of the inverted window, not un-inverted
charge_setpoint_not_uninverted(demand_arr, area) ==
    calculate_setpoint(inverted_arr(demand_arr), area)

\* TOUShiftingCalculator.charge_setpoint
charge_setpoint(demand_arr, area) ==
    FracSub(Fraction(SeqMax(demand_arr), 1),
            calculate_setpoint(inverted_arr(demand_arr), area))

\* ------------------------------------------------------------- equipment
\* Dispatch: charge and discharge of one sample interval
Dispatch(charge, discharge) == [charge |-> charge, discharge |-> discharge]

\* Dispatch.net_value
net_value(dispatch) == dispatch.discharge - dispatch.charge

\* Dispatch.no_dispatch
no_dispatch(dispatch) == net_value(dispatch) = 0

\* the mutant: every proposal passes
validate_nothing(d) == "ok"

\* Dispatch.validate: "ok", or the error it raises
validate(dispatch) ==
    IF dispatch.charge < 0 \/ dispatch.discharge < 0 THEN "ValueError"
    ELSE IF ~(Min2(dispatch.charge, dispatch.discharge) = 0) THEN "ValueError"
    ELSE "ok"

\* the mutant: a positive value becomes charge, a negative one discharge
from_raw_float_legs_exchanged(dispatch_value) ==
    Dispatch(Max2(0, dispatch_value), -Min2(0, dispatch_value))

\* Dispatch.from_raw_float
from_raw_float(dispatch_value) ==
    Dispatch(-Min2(0, dispatch_value), Max2(0, dispatch_value))

\* Storage.  The field state_of_charge holds the numerator of the fraction
\* of the capacity that is filled, over the denominator SocDen: the state
\* of charge is state_of_charge / SocDen(e), and lies in [0,1] exactly if
\* the numerator lies in 0..SocDen(e).  cycle_count is counted likewise.
SocDen(e) == e.storage_capacity

\* Storage.available_energy
available_energy(e) == (e.state_of_charge * e.storage_capacity) \div SocDen(e)

\* Storage.available_storage
available_storage(e) ==
    (e.storage_capacity * (SocDen(e) - e.state_of_charge)) \div SocDen(e)

\* round_trip_efficiency * energy; the efficiency is the fraction num/den
TimesEfficiency(e, energy) ==
    (e.round_trip_efficiency.num * energy) \div e.round_trip_efficiency.den

\* the mutant: the efficiency divides the charge instead of multiplying it
update_state_efficiency_inverted(e, dispatch) ==
    LET delta_energy ==
            (e.round_trip_efficiency.den * dispatch.charge)
                \div e.round_trip_efficiency.num - dispatch.discharge
        delta_state_of_charge == (delta_energy * SocDen(e)) \div e.storage_capacity
    IN  [e EXCEPT !.state_of_charge = @ + delta_state_of_charge]

\* the mutant: the efficiency is applied to both legs
update_state_efficiency_both_legs(e, dispatch) ==
    LET delta_energy == TimesEfficiency(e, dispatch.charge - dispatch.discharge)
        delta_state_of_charge == (delta_energy * SocDen(e)) \div e.storage_capacity
    IN  [e EXCEPT
            !.cycle_count =
                IF delta_state_of_charge > 0 THEN @ + delta_state_of_charge ELSE @,
            !.state_of_charge = @ + delta_state_of_charge]

\* Battery.update_state
update_state(e, dispatch) ==
    LET delta_energy == TimesEfficiency(e, dispatch.charge) - dispatch.discharge
        delta_state_of_charge == (delta_energy * SocDen(e)) \div e.storage_capacity
    IN  [e EXCEPT
            !.cycle_count =
                IF delta_state_of_charge > 0 THEN @ + delta_state_of_charge ELSE @,
            !.state_of_charge = @ + delta_state_of_charge]

\* the rates dispatch_request and EquipmentDispatchSchedule read of the
\* equipment.  src/storage.py reads the Battery's nominal capacities;
\* src/equipment/storage.py reads charge_capacity / discharge_capacity, which
\* ThermalStorage defines and Battery does not: the model takes the nominal
\* capacities for both.
charge_capacity(e) == e.nominal_charge_capacity
discharge_capacity(e) == e.nominal_discharge_capacity

\* the mutant: the request is clipped to the rate limits only, not to what
\* the store holds or has room for
clip_request_rate_only(e, proposal, sample_rate) ==
    LET time_step_hours == sample_rate
    IN  Dispatch(
            Min2(proposal.charge, charge_capacity(e) * time_step_hours),
            Min2(proposal.discharge, discharge_capacity(e) * time_step_hours))

\* Battery.dispatch_request: the dispatch it builds
clip_request(e, proposal, sample_rate) ==
    LET time_step_hours == sample_rate
    IN  Dispatch(
            Min3(proposal.charge,
                 charge_capacity(e) * time_step_hours,
                 available_storage(e)),
            Min3(proposal.discharge,
                 discharge_capacity(e) * time_step_hours,
                 available_energy(e)))

\* Battery.dispatch_request: the dispatch returned and the equipment after
dispatch_request(e, proposal, sample_rate) ==
    LET dispatch == clip_request(e, proposal, sample_rate)
    IN  [dispatch |-> dispatch, equipment |-> update_state(e, dispatch)]

\* -------------------------------------------------------------- schedules
\* datetime.hour and the day of the week (0 is Monday) of a timestamp
HourOf(dt) == dt % 24
DayOf(dt) == (dt \div 24) % 7

AllDays == 0..6

\* DailyPeriod(hours, <days>)
DailyPeriod(hours, days) ==
    [kind |-> "DailyPeriod", hours |-> hours, days |-> days,
     from_date |-> None, to_date |-> None]

\* DateRangePeriod(from_date, to_date)
DateRangePeriod(from_date, to_date) ==
    [kind |-> "DateRangePeriod", hours |-> {}, days |-> {},
     from_date |-> from_date, to_date |-> to_date]

\* DailyHours.relevant_day
relevant_day(p, dt) == DayOf(dt) \in p.days

\* DailyPeriod.period_active and DateRangePeriod.period_active
Period_period_active(p, dt) ==
    IF p.kind = "DailyPeriod"
    THEN relevant_day(p, dt) /\ HourOf(dt) \in p.hours
    ELSE p.from_date <= dt /\ dt <= p.to_date

\* PeriodSchedule(periods, pause_period, always_active)
PeriodSchedule(periods, pause_period, always_active) ==
    [periods |-> periods, pause_period |-> pause_period,
     always_active |-> always_active]

\* PeriodSchedule.period_active, the loop over self.periods:
\* active = True if period.period_active(dt) else active
RECURSIVE active_after_periods(_, _, _)
active_after_periods(periods, dt, active) ==
    IF periods = <<>> THEN active
    ELSE active_after_periods(Tail(periods), dt,
            IF Period_period_active(Head(periods), dt) THEN TRUE ELSE active)

\* PeriodSchedule.period_active, the loop over self.pause_period:
\* active = False if pause_period.period_active(dt) else active
RECURSIVE active_after_pauses(_, _, _)
active_after_pauses(pause_period, dt, active) ==
    IF pause_period = <<>> THEN active
    ELSE active_after_pauses(Tail(pause_period), dt,
            IF Period_period_active(Head(pause_period), dt) THEN FALSE ELSE active)

\* the mutant: a schedule that is always active does not look at its pauses
period_active_always_unpaused(schedule, dt) ==
    IF schedule.always_active THEN TRUE
    ELSE active_after_pauses(schedule.pause_period, dt,
            active_after_periods(schedule.periods, dt, FALSE))

\* PeriodSchedule.period_active
period_active(schedule, dt) ==
    LET active ==
            IF schedule.always_active THEN TRUE
            ELSE active_after_periods(schedule.periods, dt, FALSE)
    IN  active_after_pauses(schedule.pause_period, dt, active)

\* float('inf')
Infinity == 1000000


\* DispatchConstraintSchedule(...) with its __post_init__
DispatchConstraintSchedule(no_charge_period, no_discharge_period, absolute_charge_limit, absolute_discharge_limit, allow_non_scheduled_dispatch) ==
    [no_charge_period |-> no_charge_period,
     no_discharge_period |-> no_discharge_period,
     absolute_charge_limit |->
        IF ~TruthyOpt(absolute_charge_limit) THEN Infinity
        ELSE absolute_charge_limit[1],
     absolute_discharge_limit |->
        IF ~TruthyOpt(absolute_discharge_limit) THEN Infinity
        ELSE absolute_discharge_limit[1],
     allow_non_scheduled_dispatch |-> allow_non_scheduled_dispatch]

\* DispatchConstraintSchedule.allowable_charge
allowable_charge(schedule, dt) ==
    IF period_active(schedule.no_charge_period, dt) THEN 0
    ELSE schedule.absolute_charge_limit

\* DispatchConstraintSchedule.allowable_discharge
allowable_discharge(schedule, dt) ==
    IF period_active(schedule.no_discharge_period, dt) THEN 0
    ELSE schedule.absolute_discharge_limit

\* DispatchConstraintSchedule.all_dispatch_allowed (its truth value)
all_dispatch_allowed(schedule, dt) ==
    Truthy(allowable_charge(schedule, dt)) /\ Truthy(allowable_discharge(schedule, dt))

\* the mutant: the charge-only and discharge-only answers exchanged
which_setpoint_exchanged(schedule, dt) ==
    LET which1 == IF Truthy(allowable_charge(schedule, dt)) THEN "discharge" ELSE "None"
        which2 == IF Truthy(allowable_discharge(schedule, dt)) THEN "charge" ELSE which1
    IN  IF all_dispatch_allowed(schedule, dt) THEN "universal" ELSE which2

\* DispatchConstraintSchedule.which_setpoint
which_setpoint(schedule, dt) ==
    LET which1 == IF Truthy(allowable_charge(schedule, dt)) THEN "charge" ELSE "None"
        which2 == IF Truthy(allowable_discharge(schedule, dt)) THEN "discharge" ELSE which1
    IN  IF all_dispatch_allowed(schedule, dt) THEN "universal" ELSE which2

\* the mutant: the discharge leg is not looked at
validate_dispatch_charge_only(schedule, dispatch, dt) ==
    IF ~schedule.allow_non_scheduled_dispatch
    THEN IF Truthy(dispatch.charge) /\ ~Truthy(allowable_charge(schedule, dt))
         THEN "ValueError"
         ELSE "ok"
    ELSE "ok"

\* DispatchConstraintSchedule.validate_dispatch: "ok", or the error raised
validate_dispatch(schedule, dispatch, dt) ==
    IF ~schedule.allow_non_scheduled_dispatch
    THEN IF Truthy(dispatch.charge) /\ ~Truthy(allowable_charge(schedule, dt))
         THEN "ValueError"
         ELSE IF Truthy(dispatch.discharge)
                    /\ ~Truthy(allowable_discharge(schedule, dt))
         THEN "ValueError"
         ELSE "ok"
    ELSE "ok"

\* --------------------------------------------------------- event schedules
\* SpecificEvents(events)
SpecificEvents(events) ==
    [kind |-> "SpecificEvents", events |-> events, hours |-> {}, days |-> {},
     period |-> None, next_periodic_event |-> None]

\* PeriodicEvents(start_dt, period) with its __post_init__
PeriodicEvents(start_dt, period) ==
    [kind |-> "PeriodicEvents", events |-> {}, hours |-> {}, days |-> {},
     start_dt |-> start_dt, period |-> period, next_periodic_event |-> start_dt]

\* SpecificHourEvents(hours, <days>)
SpecificHourEvents(hours, days) ==
    [kind |-> "SpecificHourEvents", events |-> {}, hours |-> hours, days |-> days,
     period |-> None, next_periodic_event |-> None]

\* the mutant: a periodic rule that fires without moving its next due time
is_due_not_advanced(occurrence, dt) ==
    IF occurrence.kind = "PeriodicEvents"
    THEN [due |-> dt >= occurrence.next_periodic_event, occurrence |-> occurrence]
    ELSE IF occurrence.kind = "SpecificEvents"
    THEN [due |-> dt \in occurrence.events, occurrence |-> occurrence]
    ELSE [due |-> relevant_day(occurrence, dt) /\ HourOf(dt) \in occurrence.hours,
          occurrence |-> occurrence]

\* EventOccurrence.is_due: the answer and the occurrence after the query
\* (timestamps are whole hours, so dt.minute is 0)
is_due(occurrence, dt) ==
    IF occurrence.kind = "PeriodicEvents"
    THEN IF dt >= occurrence.next_periodic_event
         THEN [due |-> TRUE,
               occurrence |->
                    [occurrence EXCEPT !.next_periodic_event = dt + occurrence.period]]
         ELSE [due |-> FALSE, occurrence |-> occurrence]
    ELSE IF occurrence.kind = "SpecificEvents"
    THEN [due |-> dt \in occurrence.events, occurrence |-> occurrence]
    ELSE [due |-> relevant_day(occurrence, dt) /\ HourOf(dt) \in occurrence.hours,
          occurrence |-> occurrence]

\* EventSchedule(event_occurrences, always_due)
EventSchedule(event_occurrences, always_due) ==
    [event_occurrences |-> event_occurrences, always_due |-> always_due]

\* EventSchedule.add_event
add_event(schedule, event) ==
    [schedule EXCEPT !.event_occurrences = Append(@, event)]

\* EventSchedule.event_due, the loop over self.event_occurrences:
\* due = True if occurrence.is_due(dt) else due
RECURSIVE due_after_occurrences(_, _, _)
due_after_occurrences(event_occurrences, dt, due) ==
    IF event_occurrences = <<>> THEN due
    ELSE due_after_occurrences(Tail(event_occurrences), dt,
            IF is_due(Head(event_occurrences), dt).due THEN TRUE ELSE due)

\* the mutant: the loop starts from due = True
event_due_initially_due(schedule, dt) ==
    IF schedule.always_due
    THEN [due |-> TRUE, schedule |-> schedule]
    ELSE [due |-> due_after_occurrences(schedule.event_occurrences, dt, TRUE),
          schedule |->
            [schedule EXCEPT !.event_occurrences =
                [i \in DOMAIN schedule.event_occurrences |->
                    is_due(schedule.event_occurrences[i], dt).occurrence]]]

\* EventSchedule.event_due: the answer and the schedule after the query;
\* every occurrence is queried unless the schedule is always due
event_due(schedule, dt) ==
    IF schedule.always_due
    THEN [due |-> TRUE, schedule |-> schedule]
    ELSE [due |-> due_after_occurrences(schedule.event_occurrences, dt, FALSE),
          schedule |->
            [schedule EXCEPT !.event_occurrences =
                [i \in DOMAIN schedule.event_occurrences |->
                    is_due(schedule.event_occurrences[i], dt).occurrence]]]

\* ParamSetterSchedule(...) with its __post_init__
ParamSetterSchedule(charge_params, discharge_params, universal_params, control_params_pauses) ==
    [charge_params |->
        IF charge_params = None THEN EventSchedule(<<>>, FALSE) ELSE charge_params,
     discharge_params |->
        IF discharge_params = None THEN EventSchedule(<<>>, FALSE)
        ELSE discharge_params,
     universal_params |->
        IF universal_params = None THEN EventSchedule(<<>>, FALSE)
        ELSE universal_params,
     control_params_pauses |->
        IF control_params_pauses = None THEN PeriodSchedule(<<>>, <<>>, FALSE)
        ELSE control_params_pauses]

\* ParamSetterSchedule.params_pause_due
params_pause_due(setter, dt) == period_active(setter.control_params_pauses, dt)

\* the mutant: the events are queried during the pause and the answer dropped
universal_params_due_queried_in_pause(setter, dt) ==
    LET r == event_due(setter.universal_params, dt)
    IN  [due |-> IF params_pause_due(setter, dt) THEN FALSE ELSE r.due,
         setter |-> [setter EXCEPT !.universal_params = r.schedule]]

\* the mutant: the pause is not looked at
universal_params_due_unpaused(setter, dt) ==
    LET r == event_due(setter.universal_params, dt)
    IN  [due |-> r.due, setter |-> [setter EXCEPT !.universal_params = r.schedule]]

\* ParamSetterSchedule.universal_params_due: the answer and the schedule after
universal_params_due(setter, dt) ==
    IF params_pause_due(setter, dt)
    THEN [due |-> FALSE, setter |-> setter]
    ELSE LET r == event_due(setter.universal_params, dt)
         IN  [due |-> r.due, setter |-> [setter EXCEPT !.universal_params = r.schedule]]

\* ParamSetterSchedule.charge_params_due: the answer and the schedule after
charge_params_due(setter, dt) ==
    IF params_pause_due(setter, dt)
    THEN [due |-> FALSE, setter |-> setter]
    ELSE LET r == event_due(setter.charge_params, dt)
         IN  [due |-> r.due, setter |-> [setter EXCEPT !.charge_params = r.schedule]]

\* ParamSetterSchedule.discharge_params_due: the answer and the schedule after
discharge_params_due(setter, dt) ==
    IF params_pause_due(setter, dt)
    THEN [due |-> FALSE, setter |-> setter]
    ELSE LET r == event_due(setter.discharge_params, dt)
         IN  [due |-> r.due, setter |-> [setter EXCEPT !.discharge_params = r.schedule]]

\* SetPoints.add_setter_events, for the charge and the discharge slot
add_setter_events_charge_discharge(setter, charge_params_dt, discharge_params_dt) ==
    [setter EXCEPT
        !.charge_params = add_event(@, SpecificEvents({charge_params_dt})),
        !.discharge_params = add_event(@, SpecificEvents({discharge_params_dt}))]

\* SetPoints.add_setter_events, for the universal slot (a datetime is true)
add_setter_events_universal(setter, universal_params_dt) ==
    [setter EXCEPT !.universal_params =
        add_event(@, SpecificEvents({universal_params_dt}))]

\* ----------------------------------------------------------------- meter
\* the timestamp of the i-th row of the meter's series
DtOf(m, i) == m.first_datetime + (i - 1) * m.sample_rate

\* half-minutes in a minute: the unit of the timestamps of the forecaster
\* harness, finer than the minute that the format '%Y-%m-%d %H:%M' keeps
TicksPerMinute == 2

\* datetime.strftime('%Y-%m-%d %H:%M'): the minute of a timestamp in ticks
strftime_minute(dt) == dt \div TicksPerMinute

\* time_series[start_label : end_label] on a DatetimeIndex, the labels with
\* the resolution of a minute: the rows from the start of the first minute
\* to the end of the last one, in the order of the series
slice_by_minute_labels(time_series, start_label, end_label) ==
    LET rows == {i \in DOMAIN time_series :
                    /\ start_label * TicksPerMinute <= time_series[i].dt
                    /\ time_series[i].dt < (end_label + 1) * TicksPerMinute}
        first == CHOOSE i \in rows : \A j \in rows : i <= j
    IN  IF rows = {} THEN <<>>
        ELSE [k \in 1..Cardinality(rows) |-> time_series[first + k - 1]]

\* PerfectForcaster.look_ahead on a series stamped in ticks
PerfectForcaster_look_ahead(window, time_series, start_datetime) ==
    LET end_time == start_datetime + window
    IN  slice_by_minute_labels(time_series, strftime_minute(start_datetime),
                               strftime_minute(end_time))

\* PerfectForcaster.look_ahead on a meter stamped in whole hours, where the
\* label of a timestamp is the timestamp: the rows stamped within
\* [start, start + window]
look_ahead(m, start_datetime, window) ==
    LET end_time == start_datetime + window
        rows == {i \in DOMAIN m.tseries :
                    start_datetime <= DtOf(m, i) /\ DtOf(m, i) <= end_time}
        first == CHOOSE i \in rows : \A j \in rows : i <= j
    IN  IF rows = {} THEN <<>>
        ELSE [k \in 1..Cardinality(rows) |-> m.tseries[first + k - 1]]

\* ------------------------------------------------- scheduled dispatch
\* EquipmentDispatchSchedule(charge_schedule, discharge_schedule)
EquipmentDispatchSchedule(charge_schedule, discharge_schedule) ==
    [charge_schedule |-> charge_schedule, discharge_schedule |-> discharge_schedule]

\* EquipmentDispatchSchedule.dispatch_proposal
schedule_dispatch_proposal(schedule, e, dt, sample_rate) ==
    LET sample_rate_hours == sample_rate
        scheduled_charge ==
            IF period_active(schedule.charge_schedule, dt)
            THEN charge_capacity(e) ELSE 0
        scheduled_discharge ==
            IF period_active(schedule.discharge_schedule, dt)
            THEN discharge_capacity(e) ELSE 0
    IN  Dispatch(scheduled_charge * sample_rate_hours,
                 scheduled_discharge * sample_rate_hours)

\* -------------------------------------------------------------- setpoints
\* SetPointProposal(universal, charge, discharge)
SetPointProposal(universal, charge, discharge) ==
    [universal |-> universal, charge |-> charge, discharge |-> discharge]

\* SetPoints as constructed
InitialSetPoints ==
    [charge_setpoint |-> 0, discharge_setpoint |-> 0, universal_setpoint |-> 0]

\* DemandScenario(demand, dt, balance_energy)
DemandScenario(demand, dt, balance_energy) ==
    [demand |-> demand, dt |-> dt, balance_energy |-> balance_energy]

\* the mutant: the universal set-point is used whatever the schedule allows
dispatch_proposal_universal_always(sp, demand_scenario, schedule) ==
    from_raw_float(demand_scenario.demand - sp.universal_setpoint)

\* SetPoints.dispatch_proposal
dispatch_proposal(sp, demand_scenario, schedule) ==
    LET potential_dispatches ==
            [universal |-> demand_scenario.demand - sp.universal_setpoint,
             charge |-> Min2(0, demand_scenario.demand - sp.charge_setpoint),
             discharge |-> Max2(0, demand_scenario.demand - sp.discharge_setpoint),
             None |-> 0]
        raw_proposal == potential_dispatches[which_setpoint(schedule, demand_scenario.dt)]
    IN  from_raw_float(raw_proposal)

\* the mutant: a slot the proposal leaves unset is reset to zero
set_setpoints_reset_unset(sp, setpoint_proposal, dt) ==
    [charge_setpoint |->
        IF TruthyOpt(setpoint_proposal.charge) THEN setpoint_proposal.charge[1] ELSE 0,
     discharge_setpoint |->
        IF TruthyOpt(setpoint_proposal.discharge) THEN setpoint_proposal.discharge[1]
        ELSE 0,
     universal_setpoint |->
        IF TruthyOpt(setpoint_proposal.universal) THEN setpoint_proposal.universal[1]
        ELSE 0]

\* SetPoints.set_setpoints
set_setpoints(sp, setpoint_proposal, dt) ==
    [charge_setpoint |->
        IF TruthyOpt(setpoint_proposal.charge) THEN setpoint_proposal.charge[1]
        ELSE sp.charge_setpoint,
     discharge_setpoint |->
        IF TruthyOpt(setpoint_proposal.discharge) THEN setpoint_proposal.discharge[1]
        ELSE sp.discharge_setpoint,
     universal_setpoint |->
        IF TruthyOpt(setpoint_proposal.universal) THEN setpoint_proposal.universal[1]
        ELSE sp.universal_setpoint]

\* ------------------------------------------------------------ dispatcher
\* PeakShaveBatteryDispatcher.propose_setpoint
propose_setpoint(m, window, e, dt) ==
    LET forecast == look_ahead(m, dt, window)
        sorted_arr == NpSort(forecast)
        peak_areas == cumulative_peak_areas(sorted_arr)
        index == peak_area_idx(peak_areas, available_energy(e), None)
    IN  PyIndex(NpFlip(sorted_arr), index)

\* PeakShaveBatteryDispatcher.optimise_dispatch_params: the set-points and
\* the setter schedule after it
optimise_dispatch_params(sp, setter, m, window, e, dt) ==
    LET due == universal_params_due(setter, dt)
        setpoint_proposal ==
            IF due.due
            THEN SetPointProposal(<<propose_setpoint(m, window, e, dt)>>, None, None)
            ELSE SetPointProposal(None, None, None)
    IN  [setpoints |-> set_setpoints(sp, setpoint_proposal, dt),
         setter |-> due.setter]

\* the mutant: the proposal alone, the historical peak ignored
conservative_optimise_dispatch_params_proposal_only(sp, setter, m, window, e, dt, peak) ==
    LET due == universal_params_due(setter, dt)
        setpoint_proposal ==
            IF due.due
            THEN SetPointProposal(<<propose_setpoint(m, window, e, dt)>>, None, None)
            ELSE SetPointProposal(None, None, None)
    IN  [setpoints |-> set_setpoints(sp, setpoint_proposal, dt),
         setter |-> due.setter]

\* ConservativePeakShaveComboBatteryController.optimise_dispatch_params
conservative_optimise_dispatch_params(sp, setter, m, window, e, dt, peak) ==
    LET due == universal_params_due(setter, dt)
        setpoint_proposal ==
            IF due.due
            THEN SetPointProposal(<<Max2(propose_setpoint(m, window, e, dt), peak)>>,
                                  None, None)
            ELSE SetPointProposal(None, None, None)
    IN  [setpoints |-> set_setpoints(sp, setpoint_proposal, dt),
         setter |-> due.setter]

\* a set-point computed as a fraction, in fine units: Python keeps the
\* nearest double, the model the whole number of fine units below it
ToFine(q) == q.num \div q.den

\* TouBatteryDispatcher.propose_charge_setpoint
propose_charge_setpoint(m, window, e, dt) ==
    LET demand_arr == look_ahead(m, dt, window)
    IN  ToFine(charge_setpoint(demand_arr, available_storage(e)))

\* TouBatteryDispatcher.propose_discharge_setpoint
propose_discharge_setpoint(m, window, e, dt) ==
    LET demand_arr == look_ahead(m, dt, window)
    IN  ToFine(calculate_setpoint(demand_arr, available_energy(e)))

\* TouBatteryDispatcher.optimise_dispatch_params
tou_optimise_dispatch_params(sp, setter, m, windows, e, dt) ==
    LET c == charge_params_due(setter, dt)
        d == discharge_params_due(c.setter, dt)
        setpoint_proposal ==
            SetPointProposal(
                None,
                IF c.due THEN <<propose_charge_setpoint(m, windows.charge, e, dt)>>
                ELSE None,
                IF d.due THEN <<propose_discharge_setpoint(m, windows.discharge, e, dt)>>
                ELSE None)
    IN  [setpoints |-> set_setpoints(sp, setpoint_proposal, dt),
         setter |-> d.setter]

\* TouPeakShaveComboBatteryController.optimise_dispatch_params
tou_combo_optimise_dispatch_params(sp, setter, m, windows, e, dt, peak) ==
    LET c == charge_params_due(setter, dt)
        d == discharge_params_due(c.setter, dt)
        setpoint_proposal ==
            SetPointProposal(
                None,
                IF c.due
                THEN <<Min2(propose_charge_setpoint(m, windows.charge, e, dt), peak)>>
                ELSE None,
                IF d.due THEN <<propose_discharge_setpoint(m, windows.discharge, e, dt)>>
                ELSE None)
    IN  [setpoints |-> set_setpoints(sp, setpoint_proposal, dt),
         setter |-> d.setter]

\* Dispatcher.scheduled_dispatch_proposal
scheduled_dispatch_proposal(ctl, e, demand, dt, sample_rate) ==
    LET p == schedule_dispatch_proposal(ctl.primary_dispatch_schedule, e, dt, sample_rate)
    IN  Dispatch(p.charge, Min2(demand, p.discharge))

\* Dispatcher.scheduled_secondary_dispatch_proposal
scheduled_secondary_dispatch_proposal(ctl, e, dt, sample_rate) ==
    schedule_dispatch_proposal(ctl.secondary_dispatch_schedule, e, dt, sample_rate)

\* StorageDispatcher.dispatch, the proposal of one row: the primary
\* schedule's, else the secondary schedule's, else the set-points'
row_proposal(ctl, sp, schedule, e, demand, dt, sample_rate) ==
    LET p1 == scheduled_dispatch_proposal(ctl, e, demand, dt, sample_rate)
        p2 == IF ctl.secondary_dispatch_schedule # None /\ no_dispatch(p1)
              THEN scheduled_secondary_dispatch_proposal(ctl, e, dt, sample_rate)
              ELSE p1
    IN  IF no_dispatch(p2)
        THEN dispatch_proposal(sp, DemandScenario(demand, dt, demand), schedule)
        ELSE p2

\* the mutant: the peak is the latest net demand
update_historical_net_demand_latest(peak, min, net_demand) ==
    [historical_peak_demand |-> net_demand,
     historical_min_demand |-> net_demand]

\* Dispatcher.update_historical_net_demand: the new peak and min
update_historical_net_demand(peak, min, net_demand) ==
    LET new_peak == Max2(net_demand, peak)
    IN  [historical_peak_demand |-> new_peak,
         historical_min_demand |-> Min2(net_demand, new_peak)]

\* Dispatcher.report_dispatch / PowerFlexMeter.update_dispatch: the row appended
report_row(d, sp, e) ==
    [charge |-> d.charge, discharge |-> d.discharge, net |-> net_value(d),
     charge_setpoint |-> sp.charge_setpoint,
     discharge_setpoint |-> sp.discharge_setpoint,
     universal_setpoint |-> sp.universal_setpoint,
     state_of_charge |-> e.state_of_charge,
     available_energy |-> available_energy(e),
     available_storage |-> available_storage(e),
     cycle_count |-> e.cycle_count]

\* the mutant: the rows are consolidated last step first
consolidate_updates_reversed(m, arrays) ==
    [i \in DOMAIN arrays |->
        [charge |-> arrays[Len(arrays) + 1 - i].charge,
         discharge |-> arrays[Len(arrays) + 1 - i].discharge,
         net |-> arrays[Len(arrays) + 1 - i].net,
         flexed_net_energy |-> m.tseries[i] - arrays[Len(arrays) + 1 - i].net]]

\* PowerFlexMeter.consolidate_updates
consolidate_updates(m, arrays) ==
    [i \in DOMAIN arrays |->
        [charge |-> arrays[i].charge, discharge |-> arrays[i].discharge,
         net |-> arrays[i].net,
         flexed_net_energy |-> m.tseries[i] - arrays[i].net]]

\* Converter.energy_to_power
energy_to_power(delta_energy, delta_t_hours) == Fraction(delta_energy, delta_t_hours)

\* the mutant: the power is multiplied by the power factor
power_to_apparent_multiplied(power, power_factor) ==
    Fraction(power.num * power_factor.num, power.den * power_factor.den)

\* Converter.power_to_apparent
power_to_apparent(power, power_factor) ==
    Fraction(power.num * power_factor.den, power.den * power_factor.num)

\* Converter.power_meter_tseries_from_energy
power_meter_tseries_from_energy(energy_series, power_factor_series, sample_rate) ==
    [i \in DOMAIN energy_series |->
        LET demand_power == energy_to_power(energy_series[i], sample_rate)
        IN  [demand_energy |-> energy_series[i],
             demand_power |-> demand_power,
             demand_apparent |-> power_to_apparent(demand_power, power_factor_series[i]),
             power_factor |-> power_factor_series[i]]]

\* PowerFlexMeter.calculate_flexed_tseries: the flexed series
calculate_flexed_tseries(m, dispatch_rows) ==
    LET df == power_meter_tseries_from_energy(
                    [i \in DOMAIN dispatch_rows |-> dispatch_rows[i].flexed_net_energy],
                    m.power_factor, m.sample_rate)
    IN  [i \in DOMAIN df |->
            [demand_energy |-> df[i].demand_energy,
             demand_power |-> df[i].demand_power,
             demand_apparent |-> df[i].demand_apparent,
             power_factor |-> df[i].power_factor,
             generation_energy |-> m.generation_energy[i]]]

\* ------------------------------------------------ wholesale-price tranches
\* the tranche harness counts time in half-hours, the default
\* forecast_resolution: timedelta(hours=1) is two of them
TrancheUnitsPerHour == 2

\* WholesalePriceTranchDispatcher.calculate_tranches: number_tranches
\* (tranche_energy is dispatch_rate * forecast_resolution / 1 h; int()
\* truncates the positive quotient)
calculate_tranches(e, forecast_resolution) ==
    LET dispatch_rate == Min2(e.nominal_charge_capacity, e.nominal_discharge_capacity)
        number_tranches ==
            (e.storage_capacity * TrancheUnitsPerHour)
                \div (dispatch_rate * forecast_resolution)
    IN  IF number_tranches % 2 # 0 THEN number_tranches - 1 ELSE number_tranches

\* DataFrame.sort_values(by='price'): the rows in ascending order of price
RECURSIVE insert_by_price(_, _)
insert_by_price(r, sorted) ==
    IF sorted = <<>> THEN <<r>>
    ELSE IF r.price < Head(sorted).price THEN <<r>> \o sorted
    ELSE <<Head(sorted)>> \o insert_by_price(r, Tail(sorted))

RECURSIVE sort_values_by_price(_)
sort_values_by_price(frame) ==
    IF frame = <<>> THEN <<>>
    ELSE insert_by_price(frame[Len(frame)],
                         sort_values_by_price(SubSeq(frame, 1, Len(frame) - 1)))

\* frame.iloc[:k] for k >= 0
iloc_head(frame, k) == SubSeq(frame, 1, Min2(k, Len(frame)))

\* frame.iloc[-k:] for k >= 0: -0 is 0, so k = 0 selects every row
iloc_tail(frame, k) ==
    IF k = 0 \/ k >= Len(frame) THEN frame
    ELSE SubSeq(frame, Len(frame) - k + 1, Len(frame))

\* len(price_forecast.resample(forecast_resolution).mean()): one row per
\* bin of forecast_resolution from the bin of the first row to that of the
\* last
resampled_len(frame, forecast_resolution) ==
    IF frame = <<>> THEN 0
    ELSE (frame[Len(frame)].time \div forecast_resolution)
            - (frame[1].time \div forecast_resolution) + 1

\* WholesalePriceTranchBatteryDispatcher.set_dispatch_schedule: the charge
\* and discharge periods handed to update_primary_dispatch_schedule
set_dispatch_schedule(price_forecast, number_tranches, forecast_resolution, sample_rate) ==
    LET sorted_price_tseries == sort_values_by_price(price_forecast)
        forecast_len == IF sample_rate # forecast_resolution
                        THEN resampled_len(price_forecast, forecast_resolution)
                        ELSE Len(price_forecast)
        number_dispatch_slots == number_tranches \div 2
        number_dispatch_pairs == Min2(forecast_len \div 2, number_dispatch_slots)
        charge_times == iloc_head(sorted_price_tseries, number_dispatch_pairs)
        discharge_times == iloc_tail(sorted_price_tseries, number_dispatch_pairs)
    IN  [charge_periods |->
            [i \in DOMAIN charge_times |->
                DateRangePeriod(charge_times[i].time,
                                charge_times[i].time + forecast_resolution)],
         discharge_periods |->
            [i \in DOMAIN discharge_times |->
                DateRangePeriod(discharge_times[i].time,
                                discharge_times[i].time + forecast_resolution)]]

\* ------------------------------------------------------ schedules in use
\* DispatchConstraintSchedule.empty_schedule
empty_schedule ==
    DispatchConstraintSchedule(PeriodSchedule(<<>>, <<>>, FALSE),
                               PeriodSchedule(<<>>, <<>>, FALSE), None, None, FALSE)

\* at hour 0 both legs are allowed, at hour 1 only discharge, at hour 2 only
\* charge, at hour 3 neither, and from hour 4 on both again
NoChargeHours == PeriodSchedule(<<DailyPeriod({1, 3}, AllDays)>>, <<>>, FALSE)
NoDischargeHours == PeriodSchedule(<<DailyPeriod({2, 3}, AllDays)>>, <<>>, FALSE)

ConstraintSchedules ==
    {empty_schedule} \cup
    {DispatchConstraintSchedule(NoChargeHours, NoDischargeHours, lim, lim, allow) :
        lim \in {None, <<0>>, <<Scale>>}, allow \in BOOLEAN}

\* ------------------------------------------------------- idle predicates
Efficiencies == {[num |-> 1, den |-> 1], [num |-> 1, den |-> 2]}

NoEquipment == [nominal_discharge_capacity |-> 0, nominal_charge_capacity |-> 0,
                storage_capacity |-> Scale,
                round_trip_efficiency |-> [num |-> 1, den |-> 1],
                state_of_charge |-> 0, cycle_count |-> 0]

BatIdle ==
    /\ bat_requests = 0
    /\ bat_proposal = None
    /\ bat_sample_rate = None
    /\ bat_before = None
    /\ bat_dispatch = None

OptIdle ==
    /\ opt_fn = "none"
    /\ opt_demand_arr = <<>>
    /\ opt_area = 0
    /\ opt_index = None
    /\ opt_result = None

CtlIdle ==
    /\ ctl_op = "none"
    /\ ctl_before = None
    /\ ctl_args = None
    /\ ctl_result = None

NoRun ==
    /\ pc = "idle"
    /\ row = 0
    /\ row_proposal_v = None
    /\ row_dispatch = None
    /\ updater_arrays = <<>>
    /\ dispatch_tseries = None
    /\ historical_peak_demand = 0
    /\ historical_min_demand = 0
    /\ error = None

LoopIdle ==
    /\ dispatcher = None
    /\ meter = None
    /\ setter_schedule = None
    /\ forecasters = None
    /\ controller = None
    /\ special_constraints = None
    /\ NoRun

\* ------------------------------------------------- the optimiser harness
Windows == UNION {[1..n -> WindowValues] : n \in 1..MaxWindow}

InitOptimiser ==
    /\ opt_fn = "none"
    /\ opt_demand_arr \in Windows
    /\ opt_area \in -1..MaxArea
    /\ opt_index = None
    /\ opt_result = None
    /\ equipment = NoEquipment
    /\ BatIdle
    /\ setpoints = InitialSetPoints
    /\ dispatch_constraint_schedule = empty_schedule
    /\ CtlIdle
    /\ LoopIdle

\* one call of PeakShave.peak_shave(demand_arr, area)
PeakShaveCall ==
    /\ opt_fn = "none"
    /\ opt_fn' = "peak_shave"
    /\ opt_index' = peak_shave(opt_demand_arr, opt_area).index
    /\ opt_result' = peak_shave(opt_demand_arr, opt_area).threshold
    /\ UNCHANGED <<opt_demand_arr, opt_area, equipment, batVars, setpoints,
                   dispatch_constraint_schedule, ctlVars, loopVars>>

NextOptimiser == PeakShaveCall

SpecOptimiser == InitOptimiser /\ [][NextOptimiser]_vars

\* ------------------------------------- the time-of-use calculator harness
TouWindows == UNION {[1..n -> WindowValues] : n \in 1..MaxTouWindow}

InitTouCalculator ==
    /\ opt_fn = "none"
    /\ opt_demand_arr \in TouWindows
    /\ opt_area \in -1..MaxArea
    /\ opt_index = None
    /\ opt_result = None
    /\ equipment = NoEquipment
    /\ BatIdle
    /\ setpoints = InitialSetPoints
    /\ dispatch_constraint_schedule = empty_schedule
    /\ CtlIdle
    /\ LoopIdle

\* one call of TOUShiftingCalculator.calculate_setpoint(demand_arr, area)
CalculateSetpointCall ==
    /\ opt_fn = "none"
    /\ opt_fn' = "calculate_setpoint"
    /\ opt_index' = None
    /\ opt_result' = calculate_setpoint(opt_demand_arr, opt_area)
    /\ UNCHANGED <<opt_demand_arr, opt_area, equipment, batVars, setpoints,
                   dispatch_constraint_schedule, ctlVars, loopVars>>

\* one call of TOUShiftingCalculator.charge_setpoint(demand_arr, area)
ChargeSetpointCall ==
    /\ opt_fn = "none"
    /\ opt_fn' = "charge_setpoint"
    /\ opt_index' = None
    /\ opt_result' = charge_setpoint(opt_demand_arr, opt_area)
    /\ UNCHANGED <<opt_demand_arr, opt_area, equipment, batVars, setpoints,
                   dispatch_constraint_schedule, ctlVars, loopVars>>

NextTouCalculator ==
    \/ CalculateSetpointCall
    \/ ChargeSetpointCall

SpecTouCalculator == InitTouCalculator /\ [][NextTouCalculator]_vars

\* ------------------------------------------------- the sub-load harness
\* windows of up to MaxSubLoadRows rows, sorted ascending by gross demand
\* and labelled by position, each row with its sub-load
SortedFrames ==
    UNION {{[j \in 1..n |-> [label |-> j - 1, gross |-> g[j], sub |-> u[j]]] :
                g \in {h \in [1..n -> {2, 4, 6}] :
                            \A j \in 1..(n - 1) : h[j] <= h[j + 1]},
                u \in [1..n -> {0, 1, 3}]} :
           n \in 1..MaxSubLoadRows}

\* opt_index holds max_idx, the row the scan stops before
InitSubLoad ==
    /\ opt_fn = "none"
    /\ opt_demand_arr \in SortedFrames
    /\ opt_area \in -1..MaxArea
    /\ opt_index \in 0..(MaxSubLoadRows - 1)
    /\ opt_index < Len(opt_demand_arr)
    /\ opt_result = None
    /\ equipment = NoEquipment
    /\ BatIdle
    /\ setpoints = InitialSetPoints
    /\ dispatch_constraint_schedule = empty_schedule
    /\ CtlIdle
    /\ LoopIdle

\* one call of PeakShave.sub_load_peak_shave_limit(sorted_df, max_idx, area, ..)
SubLoadPeakShaveLimitCall ==
    /\ opt_fn = "none"
    /\ opt_fn' = "sub_load_peak_shave_limit"
    /\ opt_result' = sub_load_peak_shave_limit(opt_demand_arr, opt_index, opt_area)
    /\ UNCHANGED <<opt_demand_arr, opt_area, opt_index, equipment, batVars, setpoints,
                   dispatch_constraint_schedule, ctlVars, loopVars>>

NextSubLoad == SubLoadPeakShaveLimitCall

SpecSubLoad == InitSubLoad /\ [][NextSubLoad]_vars

\* --------------------------------------------------- the tranche harness
\* price forecasts of up to MaxPriceSlots half-hourly slots from time 0,
\* with prices that differ from slot to slot
PriceForecasts ==
    UNION {{[i \in 1..n |-> [time |-> i - 1, price |-> f[i]]] :
                f \in {g \in [1..n -> 1..n] : \A i, j \in 1..n : g[i] = g[j] => i = j}} :
           n \in 1..MaxPriceSlots}

\* batteries of equal charge and discharge rate (two units of energy an
\* hour) that hold 1, 2, 4 or 6 units
TrancheBatteries ==
    {[nominal_discharge_capacity |-> 2, nominal_charge_capacity |-> 2,
      storage_capacity |-> c,
      round_trip_efficiency |-> [num |-> 1, den |-> 1],
      state_of_charge |-> 0, cycle_count |-> 0] : c \in {1, 2, 4, 6}}

\* the run's timestamps: a row every sample_rate from time 0 to the end of
\* the last slot
TrancheMeters ==
    {[tseries |-> [i \in 1..(MaxPriceSlots \div sr + 1) |-> Scale],
      sample_rate |-> sr, first_datetime |-> 0] : sr \in {1, 2}}

\* opt_demand_arr holds the price forecast, opt_area number_tranches
InitTranche ==
    /\ opt_fn = "none"
    /\ opt_demand_arr \in PriceForecasts
    /\ opt_area = 0
    /\ opt_index = None
    /\ opt_result = None
    /\ equipment \in TrancheBatteries
    /\ BatIdle
    /\ setpoints = InitialSetPoints
    /\ dispatch_constraint_schedule = empty_schedule
    /\ CtlIdle
    /\ dispatcher = "WholesalePriceTranchBatteryDispatcher"
    /\ meter \in TrancheMeters
    /\ forecasters \in {[forecast_resolution |-> r] : r \in {1, 2}}
    /\ controller = None
    /\ special_constraints = None
    /\ setter_schedule = None
    /\ NoRun

\* __post_init__: self.calculate_tranches()
TrancheConstruct ==
    /\ opt_fn = "none"
    /\ opt_fn' = "calculate_tranches"
    /\ opt_area' = calculate_tranches(equipment, forecasters.forecast_resolution)
    /\ UNCHANGED <<opt_demand_arr, opt_index, opt_result, equipment, batVars, setpoints,
                   dispatch_constraint_schedule, ctlVars, loopVars>>

\* one call of set_dispatch_schedule(dt) with the forecast of dt
TrancheSetDispatchSchedule ==
    /\ opt_fn = "calculate_tranches"
    /\ opt_fn' = "set_dispatch_schedule"
    /\ opt_result' = set_dispatch_schedule(opt_demand_arr, opt_area,
                                           forecasters.forecast_resolution,
                                           meter.sample_rate)
    /\ UNCHANGED <<opt_demand_arr, opt_area, opt_index, equipment, batVars, setpoints,
                   dispatch_constraint_schedule, ctlVars, loopVars>>

NextTranche ==
    \/ TrancheConstruct
    \/ TrancheSetDispatchSchedule

SpecTranche == InitTranche /\ [][NextTranche]_vars

\* --------------------------------------------------- the battery harness
\* a proposal far larger than any capacity
Huge == 100 * Scale

Batteries ==
    {[nominal_discharge_capacity |-> dc * Scale,
      nominal_charge_capacity |-> cc * Scale,
      storage_capacity |-> sc * Scale,
      round_trip_efficiency |-> eff,
      state_of_charge |-> soc,
      cycle_count |-> 0] :
        dc \in {0, 1, 3}, cc \in {0, 1, 3}, sc \in {2, 4}, eff \in Efficiencies,
        soc \in {0, Scale, 2 * Scale}}

ProposalLegs == {0, Scale, 3 * Scale, Huge}

SampleRates == {1, 2}

InitBattery ==
    /\ OptIdle
    /\ equipment \in Batteries
    /\ BatIdle
    /\ setpoints = InitialSetPoints
    /\ dispatch_constraint_schedule = empty_schedule
    /\ CtlIdle
    /\ LoopIdle

\* one call of equipment.dispatch_request(proposal, sample_rate)
BatteryDispatchRequest ==
    /\ bat_requests < MaxSteps
    /\ \E c \in ProposalLegs, d \in ProposalLegs, sample_rate \in SampleRates :
        LET p == Dispatch(c, d)
            r == dispatch_request(equipment, p, sample_rate)
        IN  /\ bat_proposal' = p
            /\ bat_sample_rate' = sample_rate
            /\ bat_before' = equipment
            /\ bat_dispatch' = r.dispatch
            /\ equipment' = r.equipment
    /\ bat_requests' = bat_requests + 1
    /\ UNCHANGED <<optVars, setpoints, dispatch_constraint_schedule, ctlVars,
                   loopVars>>

NextBattery == BatteryDispatchRequest

SpecBattery == InitBattery /\ [][NextBattery]_vars

\* every product with the efficiency met in a run is a whole number of fine
\* units, so the integer division of TimesEfficiency loses nothing
ExactArithmetic ==
    bat_requests > 0 =>
        (bat_before.round_trip_efficiency.num * bat_dispatch.charge)
            % bat_before.round_trip_efficiency.den = 0

\* ------------------------------------------------ the controller harness
\* the values a slot of a proposal carries
SlotValues == {None, <<0>>, <<Scale>>, <<3 * Scale>>}

CtlDemands == {0, Scale, 2 * Scale, 4 * Scale}

CtlTimes == 0..4

CtlLegs == {0, Scale, 0 - Scale}

InitController ==
    /\ OptIdle
    /\ equipment = NoEquipment
    /\ BatIdle
    /\ setpoints = InitialSetPoints
    /\ dispatch_constraint_schedule \in ConstraintSchedules
    /\ CtlIdle
    /\ LoopIdle

\* one call of setpoints.set_setpoints(setpoint_proposal)
CtlSetSetpoints ==
    /\ \E u \in SlotValues, c \in SlotValues, d \in SlotValues :
        /\ ctl_args' = SetPointProposal(u, c, d)
        /\ setpoints' = set_setpoints(setpoints, SetPointProposal(u, c, d), None)
    /\ ctl_op' = "set_setpoints"
    /\ ctl_before' = setpoints
    /\ ctl_result' = None
    /\ UNCHANGED <<optVars, equipment, batVars, dispatch_constraint_schedule,
                   loopVars>>

\* one call of setpoints.dispatch_proposal(demand_scenario, schedule)
CtlDispatchProposal ==
    /\ \E demand \in CtlDemands, dt \in CtlTimes :
        /\ ctl_args' = DemandScenario(demand, dt, demand)
        /\ ctl_result' = dispatch_proposal(setpoints, DemandScenario(demand, dt, demand),
                                           dispatch_constraint_schedule)
    /\ ctl_op' = "dispatch_proposal"
    /\ ctl_before' = setpoints
    /\ UNCHANGED <<optVars, equipment, batVars, setpoints,
                   dispatch_constraint_schedule, loopVars>>

\* one call of dispatch_constraint_schedule.validate_dispatch(dispatch, dt)
CtlValidateDispatch ==
    /\ \E c \in CtlLegs, d \in CtlLegs, dt \in CtlTimes :
        /\ ctl_args' = [dispatch |-> Dispatch(c, d), dt |-> dt]
        /\ ctl_result' = validate_dispatch(dispatch_constraint_schedule,
                                           Dispatch(c, d), dt)
    /\ ctl_op' = "validate_dispatch"
    /\ ctl_before' = setpoints
    /\ UNCHANGED <<optVars, equipment, batVars, setpoints,
                   dispatch_constraint_schedule, loopVars>>

NextController ==
    \/ CtlSetSetpoints
    \/ CtlDispatchProposal
    \/ CtlValidateDispatch

SpecController == InitController /\ [][NextController]_vars

\* -------------------------------------------------- the schedule harness
\* the rules a schedule of the harness is composed of, by position
OccurrenceChoices ==
    <<PeriodicEvents(0, 2), SpecificEvents({1, 25}), SpecificHourEvents({1}, {0})>>

PeriodChoices ==
    <<DailyPeriod({1}, AllDays), DailyPeriod({1, 2}, {0}), DateRangePeriod(2, 24)>>

\* the lists of up to MaxRules positions
RuleLists == UNION {[1..n -> 1..3] : n \in 0..MaxRules}

occurrences_of(f) == [i \in DOMAIN f |-> OccurrenceChoices[f[i]]]

periods_of(f) == [i \in DOMAIN f |-> PeriodChoices[f[i]]]

\* the timestamps queried: hours of a Monday and of the Tuesday after it
SchTimes == {0, 1, 2, 3, 24, 25}

\* an event schedule next to an empty period schedule, or a period schedule
\* next to an empty event schedule
InitSchedules ==
    /\ OptIdle
    /\ equipment = NoEquipment
    /\ BatIdle
    /\ setpoints = InitialSetPoints
    /\ dispatch_constraint_schedule = empty_schedule
    /\ CtlIdle
    /\ dispatcher = None
    /\ meter = None
    /\ forecasters = None
    /\ controller = None
    /\ special_constraints = None
    /\ NoRun
    /\ \/ \E f \in RuleLists, always_due \in BOOLEAN :
            setter_schedule =
                ParamSetterSchedule(None, None,
                    EventSchedule(occurrences_of(f), always_due), None)
       \/ \E f \in RuleLists, g \in RuleLists, always_active \in BOOLEAN :
            setter_schedule =
                ParamSetterSchedule(None, None, None,
                    PeriodSchedule(periods_of(f), periods_of(g), always_active))

\* one call of event_due(dt) on the event schedule
SchEventDue ==
    /\ \E dt \in SchTimes :
        /\ ctl_args' = dt
        /\ ctl_result' = event_due(setter_schedule.universal_params, dt).due
        /\ setter_schedule' =
                [setter_schedule EXCEPT !.universal_params =
                    event_due(setter_schedule.universal_params, dt).schedule]
    /\ ctl_op' = "event_due"
    /\ ctl_before' = setter_schedule.universal_params
    /\ UNCHANGED <<optVars, equipment, batVars, setpoints,
                   dispatch_constraint_schedule, cfgVars, runVars>>

\* one call of period_active(dt) on the period schedule
SchPeriodActive ==
    /\ \E dt \in SchTimes :
        /\ ctl_args' = dt
        /\ ctl_result' = period_active(setter_schedule.control_params_pauses, dt)
    /\ ctl_op' = "period_active"
    /\ ctl_before' = setter_schedule.control_params_pauses
    /\ UNCHANGED <<optVars, equipment, batVars, setpoints,
                   dispatch_constraint_schedule, cfgVars, setter_schedule, runVars>>

NextSchedules == SchEventDue \/ SchPeriodActive

SpecSchedules == InitSchedules /\ [][NextSchedules]_vars

\* ------------------------------------------------ the forecaster harness
\* series of up to MaxSteps rows stamped in ticks, from tick 0, a half
\* minute, a minute or two minutes apart
TickSeries ==
    {[i \in 1..n |-> [dt |-> (i - 1) * step, value |-> i * Scale]] :
        n \in 1..MaxSteps, step \in {1, 2, 4}}

\* the windows of the harness, in ticks
TickWindows == {0, 1, 2, 4, 8}

InitForecaster ==
    /\ OptIdle
    /\ equipment = NoEquipment
    /\ BatIdle
    /\ setpoints = InitialSetPoints
    /\ dispatch_constraint_schedule = empty_schedule
    /\ CtlIdle
    /\ dispatcher = None
    /\ meter \in TickSeries
    /\ setter_schedule = None
    /\ forecasters \in {[window |-> w] : w \in TickWindows}
    /\ controller = None
    /\ special_constraints = None
    /\ NoRun

\* the one call of the harness: forecaster.look_ahead(time_series, t), t a
\* timestamp of the series
CtlLookAhead ==
    /\ ctl_op = "none"
    /\ \E i \in DOMAIN meter :
        /\ ctl_args' = meter[i].dt
        /\ ctl_result' = PerfectForcaster_look_ahead(forecasters.window, meter,
                                                     meter[i].dt)
    /\ ctl_op' = "look_ahead"
    /\ ctl_before' = [time_series |-> meter, forecaster |-> forecasters]
    /\ UNCHANGED <<optVars, equipment, batVars, setpoints,
                   dispatch_constraint_schedule, loopVars>>

NextForecaster == CtlLookAhead

SpecForecaster == InitForecaster /\ [][NextForecaster]_vars

\* ------------------------------------------------ the constraint harness
\* HoursConstraint(charge_hours, discharge_hours): the empty set stands for
\* None and for the empty tuple, which Python's 'if' treats alike
HoursConstraint(charge_hours, discharge_hours) ==
    [kind |-> "HoursConstraint", charge_hours |-> charge_hours,
     discharge_hours |-> discharge_hours,
     bin_rates |-> {}, rate |-> 1, sample_rate |-> 1]

\* DemandChargeVsTouPeakConstraint(tou_tariff, demand_tariff, sample_rate),
\* the tariffs by their bin rates and their demand rate
DemandChargeVsTouPeakConstraint(bin_rates, rate, sample_rate) ==
    [kind |-> "DemandChargeVsTouPeakConstraint", charge_hours |-> {},
     discharge_hours |-> {},
     bin_rates |-> bin_rates, rate |-> rate, sample_rate |-> sample_rate]

\* HoursConstraint.limit_dispatch; the charge of a proposal is a fraction
HoursConstraint_limit_dispatch(c, demand_scenario, proposal) ==
    LET hour == HourOf(demand_scenario.dt)
        charge == IF c.charge_hours # {} /\ hour \notin c.charge_hours
                  THEN Fraction(0, 1) ELSE proposal.charge
        discharge == IF c.discharge_hours # {} /\ hour \notin c.discharge_hours
                     THEN 0 ELSE proposal.discharge
    IN  Dispatch(charge, discharge)

\* DemandChargeVsTouPeakConstraint.demand_vs_tou_breakeven_point
demand_vs_tou_breakeven_point(c) ==
    LET max_rate == CHOOSE x \in c.bin_rates : \A y \in c.bin_rates : y <= x
        min_rate == CHOOSE x \in c.bin_rates : \A y \in c.bin_rates : x <= y
        tou_shift_savings == max_rate - min_rate
        sample_rate_hours == c.sample_rate
    IN  Fraction(tou_shift_savings * sample_rate_hours, c.rate)

\* DemandChargeVsTouPeakConstraint.limit_dispatch
DemandChargeVsTouPeakConstraint_limit_dispatch(c, threshold_value, demand_scenario, proposal) ==
    LET breach ==
            FracMax(Fraction(0, 1),
                    FracSub(FracAdd(Fraction(demand_scenario.demand, 1), proposal.charge),
                            Fraction(threshold_value, 1)))
    IN  Dispatch(FracMin(demand_vs_tou_breakeven_point(c), breach), proposal.discharge)

\* DispatchConstraint.limit_dispatch of either class
limit_dispatch(c, threshold_value, demand_scenario, proposal) ==
    IF c.kind = "HoursConstraint"
    THEN HoursConstraint_limit_dispatch(c, demand_scenario, proposal)
    ELSE DemandChargeVsTouPeakConstraint_limit_dispatch(c, threshold_value,
                                                        demand_scenario, proposal)

\* DispatchConstraints.constrain: the constraints applied in their order
RECURSIVE DispatchConstraints_constrain(_, _, _, _)
DispatchConstraints_constrain(constraints, threshold_value, demand_scenario, proposal) ==
    IF constraints = <<>> THEN proposal
    ELSE DispatchConstraints_constrain(
            Tail(constraints), threshold_value, demand_scenario,
            limit_dispatch(Head(constraints), threshold_value, demand_scenario, proposal))

\* the constraints a pipeline of the harness is composed of, by position
ConstraintChoices ==
    <<HoursConstraint({0, 1}, {}), HoursConstraint({}, {1, 2}),
      DemandChargeVsTouPeakConstraint({1, 3}, 1, 1),
      DemandChargeVsTouPeakConstraint({1, 2}, 2, 1)>>

\* the pipelines of up to MaxConstraints constraints
Pipelines == UNION {[1..n -> 1..4] : n \in 0..MaxConstraints}

constraints_of(f) == [i \in DOMAIN f |-> ConstraintChoices[f[i]]]

\* the proposals handed to a pipeline: one leg at most, never negative
PipelineProposals ==
    {Dispatch(Fraction(c, 1), d) : c \in {0, 1, 3}, d \in {0, 2}}

PipelineDemands == {0, 2, 4}

PipelineThresholds == {1, 3}

InitConstraints ==
    /\ OptIdle
    /\ equipment = NoEquipment
    /\ BatIdle
    /\ setpoints = InitialSetPoints
    /\ dispatch_constraint_schedule = empty_schedule
    /\ CtlIdle
    /\ LoopIdle

\* the one call of the harness: limit_dispatch on a single constraint
CtlLimitDispatch ==
    /\ ctl_op = "none"
    /\ \E k \in 1..4, p \in PipelineProposals, demand \in PipelineDemands,
          dt \in CtlTimes, threshold_value \in PipelineThresholds :
        /\ ctl_before' = p
        /\ ctl_args' = [constraints |-> <<ConstraintChoices[k]>>,
                        demand_scenario |-> DemandScenario(demand, dt, demand),
                        threshold_value |-> threshold_value]
        /\ ctl_result' = limit_dispatch(ConstraintChoices[k], threshold_value,
                                        DemandScenario(demand, dt, demand), p)
    /\ ctl_op' = "limit_dispatch"
    /\ UNCHANGED <<optVars, equipment, batVars, setpoints,
                   dispatch_constraint_schedule, loopVars>>

\* the one call of the harness: constrain on a pipeline
CtlConstrain ==
    /\ ctl_op = "none"
    /\ \E f \in Pipelines, p \in PipelineProposals, demand \in PipelineDemands,
          dt \in CtlTimes, threshold_value \in PipelineThresholds :
        /\ ctl_before' = p
        /\ ctl_args' = [constraints |-> constraints_of(f),
                        demand_scenario |-> DemandScenario(demand, dt, demand),
                        threshold_value |-> threshold_value]
        /\ ctl_result' = DispatchConstraints_constrain(
                            constraints_of(f), threshold_value,
                            DemandScenario(demand, dt, demand), p)
    /\ ctl_op' = "constrain"
    /\ UNCHANGED <<optVars, equipment, batVars, setpoints,
                   dispatch_constraint_schedule, loopVars>>

NextConstraints == CtlLimitDispatch \/ CtlConstrain

SpecConstraints == InitConstraints /\ [][NextConstraints]_vars

\* ------------------------------------------------------ the dispatch run
\* the demand series of a run: up to MaxSteps hourly or two-hourly rows
Demands == {Scale, 4 * Scale}

Meters ==
    {[tseries |-> ts, sample_rate |-> sr, first_datetime |-> 0] :
        ts \in UNION {[1..n -> Demands] : n \in 1..MaxSteps}, sr \in SampleRates}

RunBatteries ==
    {[nominal_discharge_capacity |-> 3 * Scale, nominal_charge_capacity |-> 3 * Scale,
      storage_capacity |-> 4 * Scale,
      round_trip_efficiency |-> [num |-> 1, den |-> 2],
      state_of_charge |-> 2 * Scale, cycle_count |-> 0],
     [nominal_discharge_capacity |-> 1 * Scale, nominal_charge_capacity |-> 1 * Scale,
      storage_capacity |-> 2 * Scale,
      round_trip_efficiency |-> [num |-> 1, den |-> 1],
      state_of_charge |-> 2 * Scale, cycle_count |-> 0]}

\* the universal events a run is configured with: none, every second hour
\* from the start, or at one o'clock
UniversalEvents ==
    {EventSchedule(<<>>, FALSE),
     EventSchedule(<<PeriodicEvents(0, 2)>>, FALSE),
     EventSchedule(<<SpecificHourEvents({1}, AllDays)>>, FALSE)}

SetterSchedules ==
    {ParamSetterSchedule(None, None, u, None) : u \in UniversalEvents}

Forecasters == {[universal |-> 24]}

NoPeriods == PeriodSchedule(<<>>, <<>>, FALSE)

\* the primary schedule: empty; charge at hour 0 and discharge at hour 1;
\* charge and discharge both at hour 0
PrimarySchedules ==
    {EquipmentDispatchSchedule(NoPeriods, NoPeriods),
     EquipmentDispatchSchedule(PeriodSchedule(<<DailyPeriod({0}, AllDays)>>, <<>>, FALSE),
                               PeriodSchedule(<<DailyPeriod({1}, AllDays)>>, <<>>, FALSE)),
     EquipmentDispatchSchedule(PeriodSchedule(<<DailyPeriod({0}, AllDays)>>, <<>>, FALSE),
                               PeriodSchedule(<<DailyPeriod({0}, AllDays)>>, <<>>, FALSE))}

SecondarySchedules ==
    {None,
     EquipmentDispatchSchedule(NoPeriods,
                               PeriodSchedule(<<DailyPeriod({2}, AllDays)>>, <<>>, FALSE))}

Controllers ==
    {[primary_dispatch_schedule |-> p1, secondary_dispatch_schedule |-> p2] :
        p1 \in PrimarySchedules, p2 \in SecondarySchedules}

RunConstraintSchedules ==
    {empty_schedule,
     DispatchConstraintSchedule(NoChargeHours, NoDischargeHours, None, None, FALSE)}

DispatcherClasses ==
    {"PeakShaveBatteryDispatcher", "ConservativePeakShaveComboBatteryController"}

\* the classes whose __post_init__ adds a universal event
PeakShaveClasses == DispatcherClasses

\* the classes whose __post_init__ adds a charge and a discharge event
TouClasses == {"TouBatteryDispatcher", "TouPeakShaveComboBatteryController"}

\* special_constraints: no constraint, or a constraint of which nothing is
\* known (DispatchConstraint.constrain is abstract)
SpecialConstraints == {"none", "arbitrary"}

\* what DispatchConstraints.constrain may return for a proposal
constrain(kind, p) ==
    IF kind = "none" THEN {p}
    ELSE {p, Dispatch(0, 0), Dispatch(Scale, Scale), Dispatch(0 - Scale, 0),
          Dispatch(0, Scale)}

InitRun ==
    /\ OptIdle
    /\ BatIdle
    /\ CtlIdle
    /\ equipment \in RunBatteries
    /\ setpoints = InitialSetPoints
    /\ dispatch_constraint_schedule \in RunConstraintSchedules
    /\ dispatcher \in DispatcherClasses
    /\ meter \in Meters
    /\ setter_schedule \in SetterSchedules
    /\ forecasters \in Forecasters
    /\ controller \in Controllers
    /\ special_constraints \in SpecialConstraints
    /\ pc = "construct"
    /\ row = 0
    /\ row_proposal_v = None
    /\ row_dispatch = None
    /\ updater_arrays = <<>>
    /\ dispatch_tseries = None
    /\ historical_peak_demand = 0
    /\ historical_min_demand = 0
    /\ error = None

otherVars == <<optVars, batVars, ctlVars, cfgVars, dispatch_constraint_schedule>>

\* __post_init__ of the dispatcher class
Construct ==
    /\ pc = "construct"
    /\ IF /\ dispatcher = "PeakShaveBatteryDispatcher"
          /\ setter_schedule.universal_params.event_occurrences = <<>>
       THEN /\ error' = "TypeError"
            /\ pc' = "error"
            /\ UNCHANGED <<setter_schedule, row>>
       ELSE /\ setter_schedule' =
                    IF dispatcher \in PeakShaveClasses
                    THEN add_setter_events_universal(setter_schedule,
                                                     meter.first_datetime)
                    ELSE add_setter_events_charge_discharge(
                            setter_schedule, meter.first_datetime, meter.first_datetime)
            /\ pc' = "optimise"
            /\ row' = 1
            /\ error' = error
    /\ UNCHANGED <<otherVars, equipment, setpoints, row_proposal_v, row_dispatch,
                   updater_arrays, dispatch_tseries, historical_peak_demand,
                   historical_min_demand>>

\* StorageDispatcher.dispatch, the loop body: self.optimise_dispatch_params(dt)
OptimiseDispatchParams ==
    /\ pc = "optimise"
    /\ LET dt == DtOf(meter, row)
           r == IF dispatcher = "PeakShaveBatteryDispatcher"
                THEN optimise_dispatch_params(setpoints, setter_schedule, meter,
                                              forecasters.universal, equipment, dt)
                ELSE IF dispatcher = "ConservativePeakShaveComboBatteryController"
                THEN conservative_optimise_dispatch_params(
                        setpoints, setter_schedule, meter, forecasters.universal,
                        equipment, dt, historical_peak_demand)
                ELSE IF dispatcher = "TouBatteryDispatcher"
                THEN tou_optimise_dispatch_params(setpoints, setter_schedule, meter,
                                                  forecasters, equipment, dt)
                ELSE tou_combo_optimise_dispatch_params(
                        setpoints, setter_schedule, meter, forecasters, equipment, dt,
                        historical_peak_demand)
       IN  /\ setpoints' = r.setpoints
           /\ setter_schedule' = r.setter
    /\ pc' = "propose"
    /\ UNCHANGED <<otherVars, equipment, row, row_proposal_v, row_dispatch,
                   updater_arrays, dispatch_tseries, historical_peak_demand,
                   historical_min_demand, error>>

\* the loop body: the proposal of the schedules, else of the set-points
ProposeDispatch ==
    /\ pc = "propose"
    /\ row_proposal_v' = row_proposal(controller, setpoints, dispatch_constraint_schedule,
                                      equipment, meter.tseries[row], DtOf(meter, row),
                                      meter.sample_rate)
    /\ pc' = "constrain"
    /\ UNCHANGED <<otherVars, equipment, setpoints, setter_schedule, row, row_dispatch,
                   updater_arrays, dispatch_tseries, historical_peak_demand,
                   historical_min_demand, error>>

\* the loop body: apply_special_constraints, then dispatch_proposal.validate()
ApplySpecialConstraints ==
    /\ pc = "constrain"
    /\ \E p \in constrain(special_constraints, row_proposal_v) :
        /\ row_proposal_v' = p
        /\ IF validate(p) = "ok"
           THEN pc' = "request" /\ error' = error
           ELSE pc' = "error" /\ error' = validate(p)
    /\ UNCHANGED <<otherVars, equipment, setpoints, setter_schedule, row, row_dispatch,
                   updater_arrays, dispatch_tseries, historical_peak_demand,
                   historical_min_demand>>

\* the mutant: the loop goes on with the proposal, not with the dispatch
\* that dispatch_request returned
DispatchRequestProposalKept ==
    /\ pc = "request"
    /\ LET r == dispatch_request(equipment, row_proposal_v, meter.sample_rate)
       IN  /\ row_dispatch' = row_proposal_v
           /\ equipment' = r.equipment
    /\ pc' = "commit"
    /\ UNCHANGED <<otherVars, setpoints, setter_schedule, row, row_proposal_v,
                   updater_arrays, dispatch_tseries, historical_peak_demand,
                   historical_min_demand, error>>

\* the loop body: equipment.dispatch_request(dispatch_proposal, sample_rate)
DispatchRequest ==
    /\ pc = "request"
    /\ LET r == dispatch_request(equipment, row_proposal_v, meter.sample_rate)
       IN  /\ row_dispatch' = r.dispatch
           /\ equipment' = r.equipment
    /\ pc' = "commit"
    /\ UNCHANGED <<otherVars, setpoints, setter_schedule, row, row_proposal_v,
                   updater_arrays, dispatch_tseries, historical_peak_demand,
                   historical_min_demand, error>>

\* the mutant: the row is reported and the history updated before the
\* realised dispatch is validated
CommitDispatchReportedFirst ==
    /\ pc = "commit"
    /\ LET h == update_historical_net_demand(
                    historical_peak_demand, historical_min_demand,
                    meter.tseries[row] - net_value(row_dispatch))
       IN  /\ updater_arrays' =
                    Append(updater_arrays, report_row(row_dispatch, setpoints, equipment))
           /\ historical_peak_demand' = h.historical_peak_demand
           /\ historical_min_demand' = h.historical_min_demand
    /\ IF validate_dispatch(dispatch_constraint_schedule, row_dispatch,
                            DtOf(meter, row)) = "ok"
       THEN /\ IF row < Len(meter.tseries)
               THEN row' = row + 1 /\ pc' = "optimise"
               ELSE row' = row /\ pc' = "consolidate"
            /\ error' = error
       ELSE /\ error' = "ValueError"
            /\ pc' = "error"
            /\ row' = row
    /\ UNCHANGED <<otherVars, equipment, setpoints, setter_schedule, row_proposal_v,
                   row_dispatch, dispatch_tseries>>

\* the loop body: commit_dispatch, and the step of the loop
CommitDispatch ==
    /\ pc = "commit"
    /\ IF validate_dispatch(dispatch_constraint_schedule, row_dispatch,
                            DtOf(meter, row)) = "ok"
       THEN LET h == update_historical_net_demand(
                        historical_peak_demand, historical_min_demand,
                        meter.tseries[row] - net_value(row_dispatch))
            IN  /\ updater_arrays' =
                        Append(updater_arrays, report_row(row_dispatch, setpoints, equipment))
                /\ historical_peak_demand' = h.historical_peak_demand
                /\ historical_min_demand' = h.historical_min_demand
                /\ IF row < Len(meter.tseries)
                   THEN row' = row + 1 /\ pc' = "optimise"
                   ELSE row' = row /\ pc' = "consolidate"
                /\ error' = error
       ELSE /\ error' = "ValueError"
            /\ pc' = "error"
            /\ UNCHANGED <<updater_arrays, historical_peak_demand,
                           historical_min_demand, row>>
    /\ UNCHANGED <<otherVars, equipment, setpoints, setter_schedule, row_proposal_v,
                   row_dispatch, dispatch_tseries>>

\* after the loop: self.meter.consolidate_updates(self.dispatch_on)
ConsolidateUpdates ==
    /\ pc = "consolidate"
    /\ dispatch_tseries' = consolidate_updates(meter, updater_arrays)
    /\ pc' = "done"
    /\ UNCHANGED <<otherVars, equipment, setpoints, setter_schedule, row,
                   row_proposal_v, row_dispatch, updater_arrays,
                   historical_peak_demand, historical_min_demand, error>>

Next ==
    \/ Construct
    \/ OptimiseDispatchParams
    \/ ProposeDispatch
    \/ ApplySpecialConstraints
    \/ DispatchRequest
    \/ CommitDispatch
    \/ ConsolidateUpdates

Spec == InitRun /\ [][Next]_vars

\* --------------------------------------------- the run and its flexed series
PowerFactors == {Fraction(1, 1), Fraction(4, 5)}

\* a power meter with all its channels: the power and apparent power are
\* the ones the energy gives, or ones that were measured otherwise
FlexMeters ==
    {[tseries |-> ts, sample_rate |-> sr, first_datetime |-> 0,
      power_factor |-> [i \in DOMAIN ts |-> pf],
      demand_power |-> [i \in DOMAIN ts |->
            IF derived THEN Fraction(ts[i], sr) ELSE Fraction(ts[i] + 1, sr)],
      demand_apparent |-> [i \in DOMAIN ts |->
            IF derived THEN Fraction(ts[i] * pf.den, sr * pf.num)
            ELSE Fraction(ts[i], sr)],
      generation_energy |-> [i \in DOMAIN ts |-> 0],
      flexed_tseries |-> <<>>] :
        ts \in UNION {[1..n -> Demands] : n \in 1..MaxSteps}, sr \in SampleRates,
        pf \in PowerFactors, derived \in BOOLEAN}

InitFlexedRun ==
    /\ OptIdle
    /\ BatIdle
    /\ CtlIdle
    /\ equipment \in RunBatteries
    /\ setpoints = InitialSetPoints
    /\ dispatch_constraint_schedule = empty_schedule
    /\ dispatcher = "PeakShaveBatteryDispatcher"
    /\ meter \in FlexMeters
    /\ setter_schedule =
            ParamSetterSchedule(None, None, EventSchedule(<<PeriodicEvents(0, 2)>>, FALSE),
                                None)
    /\ forecasters \in Forecasters
    /\ controller \in {c \in Controllers : c.secondary_dispatch_schedule = None}
    /\ special_constraints = "none"
    /\ pc = "construct"
    /\ row = 0
    /\ row_proposal_v = None
    /\ row_dispatch = None
    /\ updater_arrays = <<>>
    /\ dispatch_tseries = None
    /\ historical_peak_demand = 0
    /\ historical_min_demand = 0
    /\ error = None

\* after the run: meter.calculate_flexed_tseries(name), a first and a
\* second time
CalculateFlexedTseries ==
    /\ pc \in {"done", "flexed"}
    /\ meter' = [meter EXCEPT
                    !.flexed_tseries = calculate_flexed_tseries(meter, dispatch_tseries)]
    /\ pc' = IF pc = "done" THEN "flexed" ELSE "flexed_again"
    /\ UNCHANGED <<optVars, batVars, ctlVars, dispatch_constraint_schedule, dispatcher,
                   forecasters, controller, special_constraints, equipment, setpoints,
                   setter_schedule, row, row_proposal_v, row_dispatch, updater_arrays,
                   dispatch_tseries, historical_peak_demand, historical_min_demand,
                   error>>

NextFlexed == Next \/ CalculateFlexedTseries

SpecFlexed == InitFlexedRun /\ [][NextFlexed]_vars

\* ------------------------------------------------------------------ C1
\* C1: in a StorageDispatcher run the realised dispatch recorded for every
\* processed timestamp has charge >= 0, discharge >= 0 and min(charge,
\* discharge) = 0, whatever the schedules, the set-points and the special
\* constraints produced at that step; no dispatch with both legs non-zero
\* is ever recorded.
C1_RecordedDispatchExclusive ==
    \A k \in DOMAIN updater_arrays :
        /\ updater_arrays[k].charge >= 0
        /\ updater_arrays[k].discharge >= 0
        /\ Min2(updater_arrays[k].charge, updater_arrays[k].discharge) = 0

\* a run under an unknown special constraint has recorded a charge, from the
\* primary schedule, and then a discharge
C1_Witness ==
    /\ special_constraints = "arbitrary"
    /\ Len(updater_arrays) >= 2
    /\ updater_arrays[1].charge > 0
    /\ updater_arrays[2].discharge > 0

\* ------------------------------------------------ the run, by set-points
\* the events a slot is configured with: every second hour from the start,
\* or at one o'clock
SlotEventsAtOne == EventSchedule(<<SpecificHourEvents({1}, AllDays)>>, FALSE)

SlotEvents == {EventSchedule(<<PeriodicEvents(0, 2)>>, FALSE), SlotEventsAtOne}

\* no pause, or a pause over the second hour
ParamPauses == {NoPeriods, PeriodSchedule(<<DateRangePeriod(1, 1)>>, <<>>, FALSE)}

SlotSetterSchedules ==
    {ParamSetterSchedule(c, d, u, pause) :
        c \in SlotEvents, d \in SlotEvents, u \in SlotEvents, pause \in ParamPauses}

\* SetpointForecasters.from_hours(charge, discharge, universal)
SlotForecasters ==
    {[charge |-> w, discharge |-> w, universal |-> w] : w \in {1, 24}}

HourlyMeters == {m \in Meters : m.sample_rate = 1}

InitSetpointRun ==
    /\ OptIdle
    /\ BatIdle
    /\ CtlIdle
    /\ equipment \in RunBatteries
    /\ setpoints = InitialSetPoints
    /\ dispatch_constraint_schedule \in RunConstraintSchedules
    /\ dispatcher \in DispatcherClasses \cup TouClasses
    /\ meter \in HourlyMeters
    /\ setter_schedule \in SlotSetterSchedules
    /\ forecasters \in SlotForecasters
    /\ controller = [primary_dispatch_schedule |->
                        EquipmentDispatchSchedule(NoPeriods, NoPeriods),
                     secondary_dispatch_schedule |-> None]
    /\ special_constraints = "none"
    /\ pc = "construct"
    /\ row = 0
    /\ row_proposal_v = None
    /\ row_dispatch = None
    /\ updater_arrays = <<>>
    /\ dispatch_tseries = None
    /\ historical_peak_demand = 0
    /\ historical_min_demand = 0
    /\ error = None

SpecSetpointRun == InitSetpointRun /\ [][Next]_vars

\* ------------------------------------------- the run with paused events
\* a periodic universal event every second hour from hour 0 or from hour 1,
\* and no pause or a pause over hour 0, over hour 1 or over both
PausedSetterSchedules ==
    {ParamSetterSchedule(None, None,
                         EventSchedule(<<PeriodicEvents(start_dt, 2)>>, FALSE),
                         pause) :
        start_dt \in {0, 1},
        pause \in {NoPeriods,
                   PeriodSchedule(<<DateRangePeriod(0, 0)>>, <<>>, FALSE),
                   PeriodSchedule(<<DateRangePeriod(1, 1)>>, <<>>, FALSE),
                   PeriodSchedule(<<DateRangePeriod(0, 1)>>, <<>>, FALSE)}}

InitPausedRun ==
    /\ OptIdle
    /\ BatIdle
    /\ CtlIdle
    /\ equipment \in RunBatteries
    /\ setpoints = InitialSetPoints
    /\ dispatch_constraint_schedule \in RunConstraintSchedules
    /\ dispatcher \in DispatcherClasses
    /\ meter \in HourlyMeters
    /\ setter_schedule \in PausedSetterSchedules
    /\ forecasters \in Forecasters
    /\ controller = [primary_dispatch_schedule |->
                        EquipmentDispatchSchedule(NoPeriods, NoPeriods),
                     secondary_dispatch_schedule |-> None]
    /\ special_constraints = "none"
    /\ pc = "construct"
    /\ row = 0
    /\ row_proposal_v = None
    /\ row_dispatch = None
    /\ updater_arrays = <<>>
    /\ dispatch_tseries = None
    /\ historical_peak_demand = 0
    /\ historical_min_demand = 0
    /\ error = None

SpecPausedRun == InitPausedRun /\ [][Next]_vars

\* ------------------------------------ the run under absolute limits
\* constraint schedules configured with an absolute limit on both legs: one
\* unit of energy, or 0
LimitedConstraintSchedules ==
    {DispatchConstraintSchedule(NoChargeHours, NoDischargeHours, lim, lim, FALSE) :
        lim \in {<<0>>, <<Scale>>}}

InitLimitedRun ==
    /\ OptIdle
    /\ BatIdle
    /\ CtlIdle
    /\ equipment \in RunBatteries
    /\ setpoints = InitialSetPoints
    /\ dispatch_constraint_schedule \in LimitedConstraintSchedules
    /\ dispatcher \in DispatcherClasses
    /\ meter \in HourlyMeters
    /\ setter_schedule \in SetterSchedules
    /\ forecasters \in Forecasters
    /\ controller \in Controllers
    /\ special_constraints = "none"
    /\ pc = "construct"
    /\ row = 0
    /\ row_proposal_v = None
    /\ row_dispatch = None
    /\ updater_arrays = <<>>
    /\ dispatch_tseries = None
    /\ historical_peak_demand = 0
    /\ historical_min_demand = 0
    /\ error = None

SpecLimitedRun == InitLimitedRun /\ [][Next]_vars

\* ------------------------------------------------- the end-to-end scenario
\* the hours of the three peaks: at the start, in the middle, at the end of
\* the day, or apart
ScenarioPeaks == {{1, 2, 3}, {10, 11, 12}, {22, 23, 24}, {3, 12, 20}}

\* 24 hourly samples, 5 everywhere and 20 at the peaks
ScenarioMeter(peaks) ==
    [tseries |-> [i \in 1..24 |-> IF i \in peaks THEN 20 * Scale ELSE 5 * Scale],
     sample_rate |-> 1, first_datetime |-> 0]

\* storage_capacity 30, charge and discharge capacity 10, efficiency 1.0,
\* fully charged
ScenarioBattery ==
    [nominal_discharge_capacity |-> 10 * Scale, nominal_charge_capacity |-> 10 * Scale,
     storage_capacity |-> 30 * Scale,
     round_trip_efficiency |-> [num |-> 1, den |-> 1],
     state_of_charge |-> 30 * Scale, cycle_count |-> 0]

InitEndToEnd ==
    /\ OptIdle
    /\ BatIdle
    /\ CtlIdle
    /\ equipment = ScenarioBattery
    /\ setpoints = InitialSetPoints
    /\ dispatch_constraint_schedule = empty_schedule
    /\ dispatcher = "PeakShaveBatteryDispatcher"
    /\ \E peaks \in ScenarioPeaks : meter = ScenarioMeter(peaks)
    /\ setter_schedule =
            ParamSetterSchedule(None, None,
                                EventSchedule(<<SpecificEvents({0})>>, FALSE), None)
    /\ forecasters = [universal |-> 24]
    /\ controller = [primary_dispatch_schedule |->
                        EquipmentDispatchSchedule(NoPeriods, NoPeriods),
                     secondary_dispatch_schedule |-> None]
    /\ special_constraints = "none"
    /\ pc = "construct"
    /\ row = 0
    /\ row_proposal_v = None
    /\ row_dispatch = None
    /\ updater_arrays = <<>>
    /\ dispatch_tseries = None
    /\ historical_peak_demand = 0
    /\ historical_min_demand = 0
    /\ error = None

SpecEndToEnd == InitEndToEnd /\ [][Next]_vars

\* ----------------------------------------------------------------- C11
\* C11: set-points are sticky.  At every timestamp of a run at which the
\* event schedule of a slot is not due, the step of the set-point
\* computation leaves that slot's set-point as it was; and the proposal,
\* the constraints, the equipment request, the validation and the recording
\* never change a set-point.
C11_Step ==
    /\ pc # "optimise" => setpoints' = setpoints
    /\ pc = "optimise" =>
        LET dt == DtOf(meter, row)
        IN  /\ ~charge_params_due(setter_schedule, dt).due =>
                    setpoints'.charge_setpoint = setpoints.charge_setpoint
            /\ ~discharge_params_due(setter_schedule, dt).due =>
                    setpoints'.discharge_setpoint = setpoints.discharge_setpoint
            /\ ~universal_params_due(setter_schedule, dt).due =>
                    setpoints'.universal_setpoint = setpoints.universal_setpoint

C11_SetpointsSticky == [][C11_Step]_vars

\* the third row of a time-of-use run: the charge and the discharge slot,
\* due at one o'clock only, were not due at two o'clock, and the set-points
\* computed before are still there, through two rows dispatched
C11_Witness ==
    /\ dispatcher \in TouClasses
    /\ pc = "propose"
    /\ row = 3
    /\ \A i \in DOMAIN setter_schedule.charge_params.event_occurrences :
            setter_schedule.charge_params.event_occurrences[i].kind # "PeriodicEvents"
    /\ \A i \in DOMAIN setter_schedule.discharge_params.event_occurrences :
            setter_schedule.discharge_params.event_occurrences[i].kind # "PeriodicEvents"
    /\ ~charge_params_due(setter_schedule, DtOf(meter, row)).due
    /\ ~discharge_params_due(setter_schedule, DtOf(meter, row)).due
    /\ setpoints.charge_setpoint # 0
    /\ setpoints.discharge_setpoint # 0
    /\ updater_arrays[1].charge_setpoint # setpoints.charge_setpoint
    /\ updater_arrays[2].charge_setpoint = setpoints.charge_setpoint

\* ----------------------------------------------------------------- C12
\* C12: while a control-parameter pause period is active at t, none of the
\* three slots is reported due at t, whatever their own event schedules
\* say, and the step of the set-point computation at t changes no
\* set-point.
C12_Step ==
    (pc = "optimise" /\ params_pause_due(setter_schedule, DtOf(meter, row))) =>
        /\ ~charge_params_due(setter_schedule, DtOf(meter, row)).due
        /\ ~discharge_params_due(setter_schedule, DtOf(meter, row)).due
        /\ ~universal_params_due(setter_schedule, DtOf(meter, row)).due
        /\ setpoints' = setpoints

C12_PauseSkipsAllSlots == [][C12_Step]_vars

\* the second row of a run, in the paused hour: the universal, the charge
\* and the discharge schedule all have their event at one o'clock, and the
\* set-points are the ones of the first row
C12_Witness ==
    /\ pc = "propose"
    /\ row = 2
    /\ params_pause_due(setter_schedule, DtOf(meter, row))
    /\ event_due(SlotEventsAtOne, DtOf(meter, row)).due
    /\ \A i \in DOMAIN setter_schedule.universal_params.event_occurrences :
            setter_schedule.universal_params.event_occurrences[i].kind # "PeriodicEvents"
    /\ \A i \in DOMAIN setter_schedule.charge_params.event_occurrences :
            setter_schedule.charge_params.event_occurrences[i].kind # "PeriodicEvents"
    /\ \A i \in DOMAIN setter_schedule.discharge_params.event_occurrences :
            setter_schedule.discharge_params.event_occurrences[i].kind # "PeriodicEvents"
    /\ setpoints.universal_setpoint # 0
    /\ setpoints.universal_setpoint = updater_arrays[1].universal_setpoint
    /\ meter.tseries[2] > meter.tseries[1]

\* ----------------------------------------------------------------- C13
\* C13: dispatch_request changes state_of_charge by exactly
\* (round_trip_efficiency x realised charge - realised discharge) /
\* storage_capacity, the efficiency on the charge leg only and the
\* discharge leg deducted in full; no other step of a run changes the
\* equipment.
C13_Step ==
    /\ pc # "request" => equipment' = equipment
    /\ pc = "request" =>
        LET eff == equipment.round_trip_efficiency
            delta == equipment'.state_of_charge - equipment.state_of_charge
        IN  \* delta / SocDen = (eff x charge - discharge) / storage_capacity
            /\ delta * eff.den * equipment.storage_capacity =
                    (eff.num * row_dispatch'.charge - eff.den * row_dispatch'.discharge)
                        * SocDen(equipment)
            /\ [equipment' EXCEPT !.state_of_charge = 0, !.cycle_count = 0] =
                    [equipment EXCEPT !.state_of_charge = 0, !.cycle_count = 0]

C13_StateOfChargeDelta == [][C13_Step]_vars

\* the second row of a run of the half-efficient battery has charged, and
\* the store has gained half of the charge; the first row had discharged,
\* and the store had lost all of the discharge
C13_Witness ==
    /\ pc = "commit"
    /\ row = 2
    /\ equipment.round_trip_efficiency = [num |-> 1, den |-> 2]
    /\ row_dispatch.charge > 0
    /\ 2 * (available_energy(equipment) - updater_arrays[1].available_energy)
            = row_dispatch.charge
    /\ updater_arrays[1].discharge > 0
    /\ updater_arrays[1].available_energy + updater_arrays[1].discharge = 2 * Scale

\* ----------------------------------------------------------------- C14
\* C14: after every committed step historical_peak_demand equals the max of
\* its previous value and demand(t) - net_value of the realised dispatch;
\* so no step of a run lowers it.
C14_Step ==
    /\ historical_peak_demand' >= historical_peak_demand
    /\ (pc = "commit" /\ pc' # "error") =>
            historical_peak_demand' =
                Max2(historical_peak_demand,
                     meter.tseries[row] - net_value(row_dispatch))

C14_PeakIsRunningMax == [][C14_Step]_vars

\* three rows are committed: the flexed demand of the second was above the
\* first and became the peak, the flexed demand of the third was below it
\* and the peak stayed
C14_Witness ==
    /\ Len(updater_arrays) = 3
    /\ pc = "consolidate"
    /\ meter.tseries[1] - updater_arrays[1].net < meter.tseries[2] - updater_arrays[2].net
    /\ meter.tseries[3] - updater_arrays[3].net < meter.tseries[2] - updater_arrays[2].net
    /\ updater_arrays[3].net # 0
    /\ historical_peak_demand = meter.tseries[2] - updater_arrays[2].net

\* ----------------------------------------------------------------- C15
\* C15: historical_min_demand is the running minimum of the flexed series:
\* after every committed step it equals the min of its previous value and
\* demand(t) - net_value, so no step of a run raises it.
C15_Step ==
    /\ historical_min_demand' <= historical_min_demand
    /\ (pc = "commit" /\ pc' # "error") =>
            historical_min_demand' =
                Min2(historical_min_demand,
                     meter.tseries[row] - net_value(row_dispatch))

C15_MinIsRunningMin == [][C15_Step]_vars

\* ----------------------------------------------------------------- C16
\* C16: for every window and every budget E with 0 < E <= cap_area(window),
\* the area above the window minimum, calculate_setpoint returns the
\* threshold the plain peak-shave search returns for the budget E.
C16_WithinCapIsPeakShave ==
    (/\ opt_fn = "calculate_setpoint"
     /\ 0 < opt_area
     /\ opt_area <= AreaAbove(opt_demand_arr, SeqMin(opt_demand_arr)))
    => /\ peak_shave(opt_demand_arr, opt_area).threshold \in WindowValues
       /\ opt_result.num =
              opt_result.den * peak_shave(opt_demand_arr, opt_area).threshold

\* the budget is the whole cap area of a window that is not flat
C16_Witness ==
    /\ opt_fn = "calculate_setpoint"
    /\ 0 < opt_area
    /\ opt_area = AreaAbove(opt_demand_arr, SeqMin(opt_demand_arr))
    /\ Len(opt_demand_arr) >= 3
    /\ opt_result.num = opt_result.den * peak_shave(opt_demand_arr, opt_area).threshold

\* ----------------------------------------------------------------- C17
\* C17: for every non-empty window a budget of 0 makes calculate_setpoint
\* return the window maximum, so that no value of the window lies above the
\* set-point and nothing is left to discharge.
C17_ZeroBudgetReturnsMax ==
    (opt_fn = "calculate_setpoint" /\ opt_area = 0)
    => /\ opt_result.num = opt_result.den * SeqMax(opt_demand_arr)
       /\ \A i \in DOMAIN opt_demand_arr :
              Max2(0, opt_demand_arr[i] * opt_result.den - opt_result.num) = 0

\* a budget of 0 on a window that has a peak above its minimum
C17_Witness ==
    /\ opt_fn = "calculate_setpoint"
    /\ opt_area = 0
    /\ SeqMin(opt_demand_arr) < SeqMax(opt_demand_arr)
    /\ opt_result.num = opt_result.den * SeqMax(opt_demand_arr)

\* ----------------------------------------------------------------- C18
\* C18: for every window of length n and every budget E > cap_area(window)
\* the threshold is max - (cap_height + (E - cap_area) / n), the window
\* minimum lowered by the surplus spread over the window, and the sum over
\* the window of (d - threshold) is E.
C18_SurplusSpreadUniformly ==
    LET n == Len(opt_demand_arr)
        area == AreaAbove(opt_demand_arr, SeqMin(opt_demand_arr))
        height == SeqMax(opt_demand_arr) - SeqMin(opt_demand_arr)
    IN  (opt_fn = "calculate_setpoint" /\ opt_area > area)
        => /\ opt_result.den > 0
           /\ opt_result.num * n =
                  opt_result.den *
                      (n * SeqMax(opt_demand_arr) - n * height - (opt_area - area))
           /\ opt_result.num * n =
                  opt_result.den * (n * SeqMin(opt_demand_arr) - (opt_area - area))
           /\ opt_result.den * SumSeq(opt_demand_arr) - n * opt_result.num =
                  opt_result.den * opt_area

\* a surplus that the length of the window does not divide, on a window
\* that is not flat
C18_Witness ==
    LET n == Len(opt_demand_arr)
        area == AreaAbove(opt_demand_arr, SeqMin(opt_demand_arr))
    IN  /\ opt_fn = "calculate_setpoint"
        /\ area > 0
        /\ opt_area > area
        /\ (opt_area - area) % n # 0
        /\ opt_result.den * SumSeq(opt_demand_arr) - n * opt_result.num =
               opt_result.den * opt_area

\* ----------------------------------------------------------------- C19
\* C19 as stated: an event schedule with zero occurrence rules is never
\* due, at any timestamp and after any sequence of earlier queries.
C19_NoRulesNeverDue ==
    (ctl_op = "event_due" /\ ctl_before.event_occurrences = <<>>)
    => ctl_result = FALSE

\* C19 as amended: an event schedule with zero occurrence rules whose
\* always_due flag is not set is never due, at any timestamp and after any
\* sequence of earlier queries.
C19_NoRulesNotAlwaysDueNeverDue ==
    (/\ ctl_op = "event_due"
     /\ ctl_before.event_occurrences = <<>>
     /\ ~ctl_before.always_due)
    => ctl_result = FALSE

\* a schedule without rules and without the flag has been asked at hour 1
\* of the Tuesday and has answered no
C19_Witness ==
    /\ ctl_op = "event_due"
    /\ ctl_before = EventSchedule(<<>>, FALSE)
    /\ setter_schedule.universal_params = EventSchedule(<<>>, FALSE)
    /\ ctl_args = 25
    /\ ctl_result = FALSE

\* ----------------------------------------------------------------- C20
\* C20: pause always wins in a period schedule: period_active(t) is false
\* whenever a pause period is active at t, however many active periods
\* match t and whatever always_active is; when no pause period matches, it
\* is true iff some active period matches t or always_active is set.
C20_PauseAlwaysWins ==
    ctl_op = "period_active" =>
        LET paused == \E i \in DOMAIN ctl_before.pause_period :
                        Period_period_active(ctl_before.pause_period[i], ctl_args)
            matched == \E i \in DOMAIN ctl_before.periods :
                        Period_period_active(ctl_before.periods[i], ctl_args)
        IN  /\ paused => ctl_result = FALSE
            /\ ~paused => (ctl_result = (matched \/ ctl_before.always_active))

\* a schedule that is always active, with two active periods and a pause
\* period that all match the hour asked, has answered no
C20_Witness ==
    /\ ctl_op = "period_active"
    /\ ctl_before.always_active
    /\ Len(ctl_before.periods) = 2
    /\ \A i \in DOMAIN ctl_before.periods :
            Period_period_active(ctl_before.periods[i], ctl_args)
    /\ \E i \in DOMAIN ctl_before.pause_period :
            Period_period_active(ctl_before.pause_period[i], ctl_args)
    /\ ctl_result = FALSE

\* ----------------------------------------------------------------- C21
\* C21: a periodic recurrence fires at t iff t >= next_due, and on firing
\* advances next_due by exactly one period (new next_due = old next_due +
\* period), for every query time t, also a t later than next_due; a query
\* that does not fire leaves next_due as it was.
C21_PeriodicAdvancesByOnePeriod ==
    (ctl_op = "event_due" /\ ~ctl_before.always_due) =>
        \A i \in DOMAIN ctl_before.event_occurrences :
            LET before == ctl_before.event_occurrences[i]
                after == setter_schedule.universal_params.event_occurrences[i]
                fires == ctl_args >= before.next_periodic_event
            IN  before.kind = "PeriodicEvents" =>
                    /\ Len(ctl_before.event_occurrences) = 1 => ctl_result = fires
                    /\ after.next_periodic_event =
                            IF fires THEN before.next_periodic_event + before.period
                            ELSE before.next_periodic_event

\* ----------------------------------------------------------------- C22
\* C22: when every realised dispatch of a run is zero, the flexed energy is
\* the original demand energy at every timestamp, and the power and the
\* apparent power derived from it (energy / sample hours, power / power
\* factor) are the original channels whenever those stand in that relation
\* to the original energy; deriving the flexed series a second time from
\* the same record gives the same series.
C22_Step ==
    /\ (/\ pc' \in {"flexed", "flexed_again"}
        /\ \A i \in DOMAIN dispatch_tseries' :
                dispatch_tseries'[i].charge = 0 /\ dispatch_tseries'[i].discharge = 0)
       => /\ Len(meter'.flexed_tseries) = Len(meter.tseries)
          /\ \A i \in DOMAIN meter.tseries :
                LET flexed == meter'.flexed_tseries[i]
                    hours == meter.sample_rate
                    pf == meter.power_factor[i]
                IN  /\ flexed.demand_energy = meter.tseries[i]
                    /\ (/\ meter.demand_power[i].num * hours =
                                meter.tseries[i] * meter.demand_power[i].den
                        /\ meter.demand_apparent[i].num * pf.num * meter.demand_power[i].den =
                                meter.demand_power[i].num * pf.den * meter.demand_apparent[i].den)
                       => /\ FracEq(flexed.demand_power, meter.demand_power[i])
                          /\ FracEq(flexed.demand_apparent, meter.demand_apparent[i])
    /\ (pc = "flexed" /\ pc' = "flexed_again") => meter' = meter

C22_ZeroDispatchRoundTrip == [][C22_Step]_vars

\* a two-hourly meter with a power factor below one and channels that stand
\* in the relation: the run dispatched nothing, and the flexed series has
\* been derived twice and carries the original power and apparent power
C22_Witness ==
    /\ pc = "flexed_again"
    /\ meter.sample_rate = 2
    /\ meter.power_factor[1] = Fraction(4, 5)
    /\ Len(meter.tseries) = 3
    /\ \A i \in DOMAIN dispatch_tseries :
            dispatch_tseries[i].charge = 0 /\ dispatch_tseries[i].discharge = 0
    /\ \A i \in DOMAIN meter.tseries :
            /\ meter.demand_power[i] = Fraction(meter.tseries[i], 2)
            /\ FracEq(meter.flexed_tseries[i].demand_power, meter.demand_power[i])
            /\ FracEq(meter.flexed_tseries[i].demand_apparent, meter.demand_apparent[i])

\* ----------------------------------------------------------------- C23
\* C23: every constraint of the constraint pipeline, and so the pipeline as
\* a whole, can only zero or shrink a proposal: for every proposal and
\* demand scenario the charge that comes out is <= the charge that went in
\* and the discharge that comes out is <= the discharge that went in, for
\* the hour-of-day inhibition and for the demand-charge-versus-TOU throttle.
C23_ConstraintsOnlyShrink ==
    ctl_op \in {"limit_dispatch", "constrain"} =>
        /\ FracLeq(ctl_result.charge, ctl_before.charge)
        /\ ctl_result.discharge <= ctl_before.discharge

\* ----------------------------------------------------------------- C24
\* C24: look_ahead(series, t) returns exactly the observations of the
\* series stamped within [t, t + window], in order and with the observation
\* at t; it changes neither the series nor the forecaster; when t + window
\* lies past the end of the series the result is the shorter, still
\* non-empty, tail that starts at t.
C24_LookAheadIsTheWindow ==
    ctl_op = "look_ahead" =>
        LET t == ctl_args
            window == ctl_before.forecaster.window
            series == ctl_before.time_series
            within == {i \in DOMAIN series :
                            t <= series[i].dt /\ series[i].dt <= t + window}
        IN  /\ meter = series
            /\ forecasters = ctl_before.forecaster
            /\ Len(ctl_result) = Cardinality(within)
            /\ Len(ctl_result) >= 1
            /\ ctl_result[1].dt = t
            /\ \A k \in DOMAIN ctl_result :
                    /\ ctl_result[k] \in {series[i] : i \in within}
                    /\ k > 1 => ctl_result[k - 1].dt < ctl_result[k].dt

\* ----------------------------------------------------------------- C25
\* C25: a peak-shave battery dispatcher, plain or conservative, cannot be
\* constructed with a universal recomputation schedule that has no event
\* occurrences: construction fails with a configuration error before any
\* step of the loop runs.
C25_Step ==
    (/\ pc = "construct"
     /\ dispatcher \in {"PeakShaveBatteryDispatcher",
                        "ConservativePeakShaveComboBatteryController"}
     /\ setter_schedule.universal_params.event_occurrences = <<>>)
    => /\ pc' = "error"
       /\ error' = "TypeError"
       /\ row' = 0

C25_NoEventsNoConstruction == [][C25_Step]_vars

\* ----------------------------------------------------------------- C26
\* C26: for a window sorted ascending by gross demand and scanned from the
\* peak inward, sub_load_peak_shave_limit returns the gross demand of the
\* row one step nearer the peak than the first scanned row at which the
\* exposed sub-load area reaches the budget E, and 0.0 when no scanned row
\* reaches E; for every budget, also one already reached at the peak row.
C26_SubLoadLimit ==
    opt_fn = "sub_load_peak_shave_limit" =>
        LET n == Len(opt_demand_arr)
            area_at(p) ==
                SumSeq([j \in 1..n |->
                    Min2(Max2(opt_demand_arr[j].sub, 0),
                         Max2(0, opt_demand_arr[j].gross - opt_demand_arr[p].gross))])
            scanned == {p \in 1..n : p > opt_index + 1}
            reached == {p \in scanned : area_at(p) >= opt_area}
        IN  /\ opt_result.raised = "none"
            /\ reached = {} => opt_result.value = 0
            /\ reached # {} =>
                    \E p \in reached :
                        /\ \A q \in reached : q <= p
                        /\ p + 1 <= n
                        /\ opt_result.value = opt_demand_arr[p + 1].gross

\* ----------------------------------------------------------------- C27
\* C27: within each timestamp the loop runs its steps in a fixed order:
\* set-point recomputation, proposal, constraint pipeline, equipment
\* request, schedule validation, record append, historical peak/min update.
\* So the set-points recomputed at t are the ones the proposal at t uses,
\* and the recomputation at t finds the equipment and the historical peak
\* as step t-1 left them.
C27_Step ==
    /\ pc = "optimise" =>
            /\ pc' = "propose"
            /\ equipment' = equipment
            /\ historical_peak_demand' = historical_peak_demand
            /\ Len(updater_arrays) = row - 1
            /\ row >= 2 =>
                /\ equipment.state_of_charge = updater_arrays[row - 1].state_of_charge
                /\ historical_peak_demand >=
                        meter.tseries[row - 1] - updater_arrays[row - 1].net
    /\ pc # "optimise" => setpoints' = setpoints
    /\ pc = "propose" =>
            /\ pc' = "constrain"
            /\ row_proposal_v' =
                    row_proposal(controller, setpoints, dispatch_constraint_schedule,
                                 equipment, meter.tseries[row], DtOf(meter, row),
                                 meter.sample_rate)
    /\ pc = "constrain" => pc' \in {"request", "error"} /\ equipment' = equipment
    /\ pc = "request" =>
            /\ pc' = "commit"
            /\ updater_arrays' = updater_arrays
            /\ historical_peak_demand' = historical_peak_demand
    /\ pc = "commit" =>
            /\ equipment' = equipment
            /\ IF pc' = "error"
               THEN /\ updater_arrays' = updater_arrays
                    /\ historical_peak_demand' = historical_peak_demand
                    /\ historical_min_demand' = historical_min_demand
               ELSE /\ pc' \in {"optimise", "consolidate"}
                    /\ Len(updater_arrays') = row
                    /\ updater_arrays'[row].net = net_value(row_dispatch)
                    /\ pc' = "optimise" => row' = row + 1

C27_FixedStepOrder == [][C27_Step]_vars

\* the set-point was recomputed at the second timestamp, after the first
\* step had dispatched, and the proposal of the second timestamp, now
\* before the constraint pipeline, is the room below the new set-point
C27_Witness ==
    /\ pc = "constrain"
    /\ row = 2
    /\ updater_arrays[1].net # 0
    /\ setpoints.universal_setpoint # updater_arrays[1].universal_setpoint
    /\ row_proposal_v.charge > 0
    /\ row_proposal_v.charge = setpoints.universal_setpoint - meter.tseries[2]

\* ----------------------------------------------------------------- C28
\* C28: all bookkeeping uses the realised dispatch, not the proposal: the
\* charge and discharge recorded for a step and the flexed demand fed to
\* the historical tracking are those of the dispatch that dispatch_request
\* returned, so at every point of a run that has not raised,
\* storage_capacity x (state_of_charge - initial state_of_charge) is the sum
\* over the recorded steps (and the step being committed) of
\* (round_trip_efficiency x charge - discharge).
C28_Balance ==
    LET eff == equipment.round_trip_efficiency
        initial == CHOOSE b \in RunBatteries :
                        b.storage_capacity = equipment.storage_capacity
        recorded == SumSeq([i \in DOMAIN updater_arrays |->
                        eff.num * updater_arrays[i].charge
                            - eff.den * updater_arrays[i].discharge])
        pending == IF pc = "commit"
                   THEN eff.num * row_dispatch.charge - eff.den * row_dispatch.discharge
                   ELSE 0
    IN  pc \notin {"error", "idle"} =>
            eff.den * equipment.storage_capacity
                    * (equipment.state_of_charge - initial.state_of_charge)
                = (recorded + pending) * SocDen(equipment)

C28_Step ==
    /\ C28_Balance
    /\ C28_Balance'
    /\ (pc = "commit" /\ pc' # "error") =>
            /\ updater_arrays'[row].charge = row_dispatch.charge
            /\ updater_arrays'[row].discharge = row_dispatch.discharge
            /\ historical_peak_demand' =
                    Max2(historical_peak_demand,
                         meter.tseries[row] - (row_dispatch.discharge - row_dispatch.charge))

C29_Step ==
    /\ \/ updater_arrays' = updater_arrays
       \/ /\ pc = "commit"
          /\ Len(updater_arrays') = Len(updater_arrays) + 1
          /\ SubSeq(updater_arrays', 1, Len(updater_arrays)) = updater_arrays
          /\ Len(updater_arrays') = row
          /\ updater_arrays'[row].charge = row_dispatch.charge
          /\ updater_arrays'[row].discharge = row_dispatch.discharge
    /\ pc' = "done" =>
          /\ Len(dispatch_tseries') = Len(meter.tseries)
          /\ \A i \in DOMAIN meter.tseries :
                /\ dispatch_tseries'[i].charge = updater_arrays[i].charge
                /\ dispatch_tseries'[i].discharge = updater_arrays[i].discharge
                /\ dispatch_tseries'[i].net = updater_arrays[i].net
    /\ pc = "done" => dispatch_tseries' = dispatch_tseries

C29_RecordAppendOnly == [][C29_Step]_vars

\* a completed run over three timestamps: three rows, the first a charge
\* and the last a discharge
C29_Witness ==
    /\ pc = "done"
    /\ Len(meter.tseries) = 3
    /\ Len(dispatch_tseries) = 3
    /\ dispatch_tseries[1].charge > 0
    /\ dispatch_tseries[3].discharge > 0

\* ----------------------------------------------------------------- C30
\* C30: in the conservative peak-shave strategy every universal set-point
\* committed at a recomputation instant is the larger of the peak-shave
\* proposal and the historical peak demand at that instant, so it is never
\* below the flexed demand of any earlier timestamp of the run.
C30_Step ==
    LET dt == DtOf(meter, row)
        proposal == propose_setpoint(meter, forecasters.universal, equipment, dt)
        committed == setpoints'.universal_setpoint
    IN  (/\ pc = "optimise"
         /\ pc' = "propose"
         /\ dispatcher = "ConservativePeakShaveComboBatteryController"
         /\ universal_params_due(setter_schedule, dt).due
         /\ (proposal # 0 \/ historical_peak_demand # 0))
        => /\ committed \in {proposal, historical_peak_demand}
           /\ committed >= proposal
           /\ committed >= historical_peak_demand
           /\ \A i \in DOMAIN updater_arrays :
                 committed >= meter.tseries[i] - updater_arrays[i].net

C30_ConservativeSetpoint == [][C30_Step]_vars

\* a recomputation after the first timestamp that committed the historical
\* peak, the peak-shave proposal being lower
C30_Witness ==
    /\ pc = "propose"
    /\ dispatcher = "ConservativePeakShaveComboBatteryController"
    /\ row >= 2
    /\ historical_peak_demand > 0
    /\ setpoints.universal_setpoint = historical_peak_demand
    /\ updater_arrays[row - 1].universal_setpoint # setpoints.universal_setpoint
    /\ propose_setpoint(meter, forecasters.universal, equipment, DtOf(meter, row))
          < historical_peak_demand

\* ----------------------------------------------------------------- C31
\* C31: a periodic recurrence with a positive period is not idempotent
\* under repeated queries: a query that fires at t leaves the next due time
\* after t, and every later query at a t' before the next due time, the
\* same t included, answers false and leaves the rule as it is.
C31_Step ==
    LET rules == setter_schedule.universal_params.event_occurrences
        rules_after == setter_schedule'.universal_params.event_occurrences
    IN  (/\ ctl_op' = "event_due"
         /\ setter_schedule.universal_params # None
         /\ ~setter_schedule.universal_params.always_due
         /\ Len(rules) = 1
         /\ rules[1].kind = "PeriodicEvents"
         /\ rules[1].period > 0)
        => /\ ctl_result' = TRUE => ctl_args' < rules_after[1].next_periodic_event
           /\ ctl_args' < rules[1].next_periodic_event
                => (ctl_result' = FALSE /\ rules_after = rules)

C31_PeriodicNotIdempotent == [][C31_Step]_vars

\* the rule fired at hour 0, was asked again at hour 0 and answered no
C31_Witness ==
    /\ ctl_op = "event_due"
    /\ ~ctl_before.always_due
    /\ Len(ctl_before.event_occurrences) = 1
    /\ ctl_before.event_occurrences[1].kind = "PeriodicEvents"
    /\ ctl_before.event_occurrences[1].next_periodic_event = 2
    /\ ctl_args = 0
    /\ ctl_result = FALSE

\* ----------------------------------------------------------------- C32
\* C32: set-points are invoked only when no dispatch is scheduled: at a
\* timestamp where the primary dispatch schedule has an active charge
\* period with a non-zero rate, or an active discharge period with a
\* non-zero rate and positive demand, the proposal handed to the
\* constraints is the scheduled one, not the one derived from set-points.
C32_Step ==
    LET dt == DtOf(meter, row)
        demand == meter.tseries[row]
        primary == controller.primary_dispatch_schedule
        charging == /\ period_active(primary.charge_schedule, dt)
                    /\ charge_capacity(equipment) * meter.sample_rate # 0
        discharging == /\ period_active(primary.discharge_schedule, dt)
                       /\ discharge_capacity(equipment) * meter.sample_rate # 0
                       /\ demand > 0
    IN  (pc = "propose" /\ pc' = "constrain" /\ (charging \/ discharging))
        => row_proposal_v' =
              scheduled_dispatch_proposal(controller, equipment, demand, dt,
                                          meter.sample_rate)

C32_ScheduledProposalUsed == [][C32_Step]_vars

\* ----------------------------------------------------------------- C33
\* C33: the dispatch constraint schedule constrains how much dispatch is
\* allowed, not only when: every dispatch committed at t has charge <=
\* allowable_charge(t) and discharge <= allowable_discharge(t).
C33_CommittedWithinAllowable ==
    \A i \in DOMAIN updater_arrays :
        /\ updater_arrays[i].charge
                <= allowable_charge(dispatch_constraint_schedule, DtOf(meter, i))
        /\ updater_arrays[i].discharge
                <= allowable_discharge(dispatch_constraint_schedule, DtOf(meter, i))

C35_SetpointDerived ==
    LET dt == DtOf(meter, row)
        demand == meter.tseries[row]
        p1 == scheduled_dispatch_proposal(controller, equipment, demand, dt,
                                          meter.sample_rate)
        p2 == IF controller.secondary_dispatch_schedule # None /\ no_dispatch(p1)
              THEN scheduled_secondary_dispatch_proposal(controller, equipment, dt,
                                                         meter.sample_rate)
              ELSE p1
        q == dispatch_proposal(setpoints, DemandScenario(demand, dt, demand),
                               dispatch_constraint_schedule)
    IN  /\ no_dispatch(p2)
        /\ 0 <= row_proposal_v.charge /\ row_proposal_v.charge <= q.charge
        /\ 0 <= row_proposal_v.discharge /\ row_proposal_v.discharge <= q.discharge

\* C35: a dispatch derived from the set-points never fails schedule
\* validation: where the proposal comes from the set-points and the
\* constraints only shrink it, the realised charge is non-zero only where
\* charge is allowed, the realised discharge only where discharge is
\* allowed, and commit_dispatch does not raise.
C35_Step ==
    (pc = "commit" /\ C35_SetpointDerived)
    => /\ row_dispatch.charge # 0 =>
            Truthy(allowable_charge(dispatch_constraint_schedule, DtOf(meter, row)))
       /\ row_dispatch.discharge # 0 =>
            Truthy(allowable_discharge(dispatch_constraint_schedule, DtOf(meter, row)))
       /\ pc' # "error"

C36_NoOvershoot ==
    LET dt == DtOf(meter, row)
        demand == meter.tseries[row]
        which == which_setpoint(dispatch_constraint_schedule, dt)
        setpoint == IF which = "universal" THEN setpoints.universal_setpoint
                    ELSE IF which = "charge" THEN setpoints.charge_setpoint
                    ELSE IF which = "discharge" THEN setpoints.discharge_setpoint
                    ELSE demand
        flexed == demand - net_value(row_dispatch)
    IN  (pc = "commit" /\ C35_SetpointDerived)
        => /\ Min2(setpoint, demand) <= flexed
           /\ flexed <= Max2(setpoint, demand)
           /\ row_dispatch.discharge > 0 => (flexed >= setpoint /\ demand > setpoint)
           /\ row_dispatch.charge > 0 => (flexed <= setpoint /\ demand < setpoint)

\* the equipment clipped a discharge proposed by a set-point: the flexed
\* demand stays strictly between the set-point and the demand
C36_Witness ==
    /\ pc = "commit"
    /\ C35_SetpointDerived
    /\ row_dispatch.discharge > 0
    /\ row_dispatch.discharge < row_proposal_v.discharge
    /\ which_setpoint(dispatch_constraint_schedule, DtOf(meter, row)) = "discharge"
    /\ meter.tseries[row] - net_value(row_dispatch) > setpoints.discharge_setpoint

\* ----------------------------------------------------------------- C37
\* C37: with a schedule built by the wholesale-price tranche dispatcher no
\* timestamp of the run lies in both an active charge period and an active
\* discharge period.
C37_ChargeDischargeDisjoint ==
    opt_fn = "set_dispatch_schedule" =>
        \A i \in DOMAIN meter.tseries :
            ~(/\ period_active(PeriodSchedule(opt_result.charge_periods, <<>>, FALSE),
                               DtOf(meter, i))
              /\ period_active(PeriodSchedule(opt_result.discharge_periods, <<>>, FALSE),
                               DtOf(meter, i)))

\* ----------------------------------------------------------------- C38
\* C38: each tranche rescheduling selects as many discharge slots as charge
\* slots, namely min(number_tranches / 2, floor(forecast length / 2)) of
\* each, for every value of that number including 0.
C38_AsManyDischargeAsCharge ==
    opt_fn = "set_dispatch_schedule" =>
        LET pairs == Min2(opt_area \div 2, Len(opt_demand_arr) \div 2)
        IN  /\ Len(opt_result.charge_periods) = pairs
            /\ Len(opt_result.discharge_periods) = pairs

\* ----------------------------------------------------------------- C39
\* C39: a periodic recomputation event that comes due while the control
\* parameter pause is active is deferred, not lost: during the pause the
\* periodic rule is not queried and nothing is recomputed, and at a
\* timestamp that is not paused a rule whose due time has come fires, its
\* next due time becoming that timestamp plus one period.
C39_Step ==
    LET dt == DtOf(meter, row)
        rules == setter_schedule.universal_params.event_occurrences
        rules_after == setter_schedule'.universal_params.event_occurrences
        paused == params_pause_due(setter_schedule, dt)
        proposal == propose_setpoint(meter, forecasters.universal, equipment, dt)
    IN  (pc = "optimise" /\ pc' = "propose")
        => \A i \in DOMAIN rules :
              rules[i].kind = "PeriodicEvents"
              => /\ paused => (rules_after[i] = rules[i] /\ setpoints' = setpoints)
                 /\ (~paused /\ dt >= rules[i].next_periodic_event)
                      => /\ rules_after[i].next_periodic_event = dt + rules[i].period
                         /\ (dispatcher = "PeakShaveBatteryDispatcher" /\ proposal # 0)
                              => setpoints'.universal_setpoint = proposal

C39_PausedPeriodicDeferred == [][C39_Step]_vars

\* the rule that was due at hour 0, which was paused, has fired at hour 1:
\* its next due time is hour 3 and the set-point has been committed
C39_Witness ==
    /\ pc = "propose"
    /\ row = 2
    /\ dispatcher = "PeakShaveBatteryDispatcher"
    /\ params_pause_due(setter_schedule, 0)
    /\ ~params_pause_due(setter_schedule, 1)
    /\ setter_schedule.universal_params.event_occurrences[1].kind = "PeriodicEvents"
    /\ setter_schedule.universal_params.event_occurrences[1].start_dt = 0
    /\ setter_schedule.universal_params.event_occurrences[1].next_periodic_event = 3
    /\ setpoints.universal_setpoint # 0

\* ----------------------------------------------------------------- C40
\* C40: a step that fails schedule validation leaves no trace: when
\* validate_dispatch raises at timestamp t, no record is appended for t,
\* the historical peak and min are unchanged, and the equipment's state of
\* charge and cycle count are what they were before step t.
C40_Step ==
    LET initial == CHOOSE b \in RunBatteries :
                        b.storage_capacity = equipment.storage_capacity
        before == IF updater_arrays = <<>>
                  THEN [state_of_charge |-> initial.state_of_charge,
                        cycle_count |-> initial.cycle_count]
                  ELSE [state_of_charge |->
                            updater_arrays[Len(updater_arrays)].state_of_charge,
                        cycle_count |->
                            updater_arrays[Len(updater_arrays)].cycle_count]
    IN  (pc = "commit" /\ pc' = "error")
        => /\ Len(updater_arrays') = row - 1
           /\ updater_arrays' = updater_arrays
           /\ historical_peak_demand' = historical_peak_demand
           /\ historical_min_demand' = historical_min_demand
           /\ equipment'.state_of_charge = before.state_of_charge
           /\ equipment'.cycle_count = before.cycle_count

C40_FailedStepLeavesNoTrace == [][C40_Step]_vars

C4_ExactBudgetMet ==
    opt_fn = "peak_shave" =>
        /\ (opt_demand_arr = <<10, 8, 6, 4, 2>> /\ opt_area = 6) => opt_result = 6
        /\ (\E i \in DOMAIN opt_demand_arr :
                AreaAbove(opt_demand_arr, opt_demand_arr[i]) = opt_area)
            => AreaAbove(opt_demand_arr, opt_result) = opt_area

\* ------------------------------------------------------------------ C5
\* C5: for every non-empty window a budget E <= 0 returns the window's
\* peak value.
C5_NoBudgetReturnsPeak ==
    (opt_fn = "peak_shave" /\ opt_area <= 0) => opt_result = SeqMax(opt_demand_arr)

\* ------------------------------------------------------------------ C6
\* C6: for every non-empty window a budget E >= the total area above the
\* window minimum returns the window minimum, and the index read is one
\* the window has (Python counts a negative index from the end).
C6_FullBudgetReturnsMin ==
    (/\ opt_fn = "peak_shave"
     /\ opt_area >= AreaAbove(opt_demand_arr, SeqMin(opt_demand_arr)))
    => /\ opt_result = SeqMin(opt_demand_arr)
       /\ opt_index \in (0 - Len(opt_demand_arr))..(Len(opt_demand_arr) - 1)

\* ------------------------------------------------------------------ C7
\* C7: in the end-to-end scenario the finished run has flexed the three
\* peak hours down to one threshold value, below the 20 they had, has left
\* the demand of every other hour as it was, and has discharged in total
\* the sum over the peak hours of (original value - threshold).
C7_PeaksFlexedToThreshold ==
    pc = "done" =>
        LET peaks == {i \in DOMAIN meter.tseries : meter.tseries[i] = 20 * Scale}
            discharges == [i \in DOMAIN dispatch_tseries |-> dispatch_tseries[i].discharge]
        IN  \E threshold \in 0..(20 * Scale - 1) :
                /\ \A i \in peaks : dispatch_tseries[i].flexed_net_energy = threshold
                /\ \A i \in DOMAIN meter.tseries \ peaks :
                        dispatch_tseries[i].flexed_net_energy = meter.tseries[i]
                /\ SumSeq(discharges) =
                        SumSeq([k \in 1..3 |-> 20 * Scale - threshold])

\* ------------------------------------------------------------------ C8
\* C8: the proposal derived from the set-points at timestamp t is, as a
\* signed value, min(0, demand - charge_setpoint) where only charge is
\* allowed (the discharge leg is 0), max(0, demand - discharge_setpoint)
\* where only discharge is allowed (the charge leg is 0), demand -
\* universal_setpoint where both are allowed, and zero where neither is.
C8_ProposalByRegion ==
    ctl_op = "dispatch_proposal" =>
        LET schedule == dispatch_constraint_schedule
            dt == ctl_args.dt
            demand == ctl_args.demand
            charge_allowed == ~period_active(schedule.no_charge_period, dt)
            discharge_allowed == ~period_active(schedule.no_discharge_period, dt)
            signed == ctl_result.discharge - ctl_result.charge
        IN  /\ ctl_result.charge >= 0 /\ ctl_result.discharge >= 0
            /\ ctl_result.charge = 0 \/ ctl_result.discharge = 0
            /\ (charge_allowed /\ ~discharge_allowed) =>
                    /\ signed = Min2(0, demand - setpoints.charge_setpoint)
                    /\ ctl_result.discharge = 0
            /\ (discharge_allowed /\ ~charge_allowed) =>
                    /\ signed = Max2(0, demand - setpoints.discharge_setpoint)
                    /\ ctl_result.charge = 0
            /\ (charge_allowed /\ discharge_allowed) =>
                    signed = demand - setpoints.universal_setpoint
            /\ (~charge_allowed /\ ~discharge_allowed) =>
                    ctl_result = Dispatch(0, 0)

\* a charge-only hour where the charge set-point, differing from the other
\* two, asks for a charge
C8_Witness ==
    /\ ctl_op = "dispatch_proposal"
    /\ ~period_active(dispatch_constraint_schedule.no_charge_period, ctl_args.dt)
    /\ period_active(dispatch_constraint_schedule.no_discharge_period, ctl_args.dt)
    /\ setpoints.charge_setpoint = 3 * Scale
    /\ setpoints.discharge_setpoint = Scale
    /\ setpoints.universal_setpoint = 0
    /\ ctl_args.demand = 2 * Scale
    /\ ctl_result = Dispatch(Scale, 0)

\* ------------------------------------------------------------------ C9
\* C9: validate_dispatch(dispatch, t) raises exactly when a non-zero charge
\* comes at a t where charge is not allowed or a non-zero discharge at a t
\* where discharge is not allowed, and never raises when the schedule has
\* allow_non_scheduled_dispatch.
C9_RaisesExactlyOutsideRegion ==
    ctl_op = "validate_dispatch" =>
        LET schedule == dispatch_constraint_schedule
            dt == ctl_args.dt
            d == ctl_args.dispatch
            charge_allowed == ~period_active(schedule.no_charge_period, dt)
            discharge_allowed == ~period_active(schedule.no_discharge_period, dt)
            offends == \/ d.charge # 0 /\ ~charge_allowed
                       \/ d.discharge # 0 /\ ~discharge_allowed
        IN  /\ schedule.allow_non_scheduled_dispatch => ctl_result = "ok"
            /\ ~schedule.allow_non_scheduled_dispatch =>
                    (ctl_result = "ValueError" <=> offends)

\* a discharge where only charge is allowed is refused
C9_Witness ==
    /\ ctl_op = "validate_dispatch"
    /\ ~dispatch_constraint_schedule.allow_non_scheduled_dispatch
    /\ ~period_active(dispatch_constraint_schedule.no_charge_period, ctl_args.dt)
    /\ period_active(dispatch_constraint_schedule.no_discharge_period, ctl_args.dt)
    /\ ctl_args.dispatch = Dispatch(0, Scale)
    /\ ctl_result = "ValueError"

\* ----------------------------------------------------------------- C10
\* C10: after set_setpoints every slot for which the proposal carries a
\* value v, 0.0 included, equals v, and every slot the proposal leaves unset
\* keeps the value it had.
C10_EveryPresentSlotCommitted ==
    ctl_op = "set_setpoints" =>
        /\ IF ctl_args.charge # None
           THEN setpoints.charge_setpoint = ctl_args.charge[1]
           ELSE setpoints.charge_setpoint = ctl_before.charge_setpoint
        /\ IF ctl_args.discharge # None
           THEN setpoints.discharge_setpoint = ctl_args.discharge[1]
           ELSE setpoints.discharge_setpoint = ctl_before.discharge_setpoint
        /\ IF ctl_args.universal # None
           THEN setpoints.universal_setpoint = ctl_args.universal[1]
           ELSE setpoints.universal_setpoint = ctl_before.universal_setpoint

====
